---- MODULE Spec2Model ----
(***************************************************************************)
(* Model of the Tribol coupling scheme (src/src/tribol/mesh/               *)
(* CouplingScheme.cpp / .hpp): validation of a configuration, init(),      *)
(* performBinning() and apply().                                           *)
(***************************************************************************)
EXTENDS Integers, Sequences, FiniteSets, TLC

VARIABLES
  meshes,   \* MeshManager: mesh id -> MeshData (registration state of the host)
  cs,       \* the members of one CouplingScheme
  req,      \* the constructor arguments of the coupling scheme (never change)
  ret,      \* the last operation performed and what it returned / observed
  crashed   \* TRUE once a call has dereferenced a null mesh view

vars == <<meshes, cs, req, ret, crashed>>

(***************************************************************************)
(* Bounds of the model                                                     *)
(***************************************************************************)
\* the largest number of candidate face pairs F1*F2 of the two meshes
MaxPairs == 2
\* the largest timestep (in model units) the host passes to apply()
MaxDt == 2

(***************************************************************************)
(* Enumerations (tribol/common/Parameters.hpp, named as in the source)      *)
(***************************************************************************)
\* in-range contact modes; SURFACE_TO_VOLUME stands for the in-range modes
\* without an implementation
ContactModes == {"SURFACE_TO_SURFACE", "SURFACE_TO_SURFACE_CONFORMING",
                 "SURFACE_TO_VOLUME"}
ContactCases == {"NO_CASE", "AUTO", "TIED_NORMAL", "NO_SLIDING"}
\* the constructor does not range-check contact_case
CaseArgs == ContactCases \cup {"OUT_OF_RANGE_CASE"}
ContactMethods == {"COMMON_PLANE", "SINGLE_MORTAR", "ALIGNED_MORTAR",
                   "MORTAR_WEIGHTS"}
ContactModels == {"FRICTIONLESS", "TIED", "COULOMB", "NULL_MODEL"}
EnforcementMethods == {"PENALTY", "LAGRANGE_MULTIPLIER", "NULL_ENFORCEMENT"}
BinningMethods == {"BINNING_CARTESIAN_PRODUCT", "BINNING_GRID"}
SparseModes == {"MFEM_INDEX_SET", "MFEM_LINKED_LIST", "MFEM_ELEMENT_DENSE"}
EvalModes == {"MORTAR_RESIDUAL_JACOBIAN", "MORTAR_WEIGHTS_EVAL"}
FaceGeomErrors == {"NO_FACE_GEOM_ERROR", "FACE_ORIENTATION",
                   "INVALID_FACE_INPUT", "DEGENERATE_OVERLAP",
                   "FACE_VERTEX_INDEX_EXCEEDS_OVERLAP_VERTICES"}
\* an enum member read before it was ever written holds any of its values
EnforcementDataErrors == {"NO_ENFORCEMENT_DATA_ERROR",
                          "ERROR_IN_REGISTERED_ENFORCEMENT_DATA"}

MeshIds == {1, 2}

(***************************************************************************)
(* MeshData, as far as the coupling scheme reads it                         *)
(***************************************************************************)
\* element type of a surface mesh with V vertices per face
ElementType(V) ==
  CASE V = 2 -> "LINEAR_EDGE"
    [] V = 3 -> "LINEAR_TRIANGLE"
    [] OTHER -> "LINEAR_QUAD"

\* spatial dimension of a surface mesh with V vertices per face
MeshDim(V) == IF V = 2 THEN 2 ELSE 3

\* MeshData::checkLagrangeMultiplierData / checkPenaltyData: 0 for a null
\* mesh, otherwise decided by the data the host registered
checkLagrangeMultiplierData(m) == IF m.nElems <= 0 \/ m.lmDataOk THEN 0 ELSE 1
checkPenaltyData(m) == IF m.nElems <= 0 \/ m.penDataOk THEN 0 ELSE 1

(***************************************************************************)
(* CouplingScheme::CouplingScheme                                          *)
(***************************************************************************)
\* a mesh view pointer that was never set
NullView == [isNull |-> TRUE, V |-> 0, nElems |-> 0, velSet |-> FALSE]

NoErrors(dataErr) ==
  [ cs_mode_error |-> "NO_MODE_ERROR",
    cs_case_error |-> "NO_CASE_ERROR",
    cs_method_error |-> "NO_METHOD_ERROR",
    cs_model_error |-> "NO_MODEL_ERROR",
    cs_enforcement_error |-> "NO_ENFORCEMENT_ERROR",
    cs_enforcement_data_error |-> dataErr ]

\* a: the constructor arguments and the enforcement options set by the host;
\* dataErr: the value the uninitialised cs_enforcement_data_error holds
Construct(a, dataErr) ==
  [ m_mesh_id1 |-> a.mesh_id1,
    m_mesh_id2 |-> a.mesh_id2,
    m_contactMode |-> a.mode,
    m_contactCase |-> a.case,
    m_contactMethod |-> a.method,
    m_contactModel |-> a.model,
    m_enforcementMethod |-> a.enforcement,
    m_binningMethod |-> a.binning,
    penalty_set |-> a.penalty_set,
    kinematic_constant |-> a.kinematic_constant,
    lm_set |-> a.lm_set,
    sparse_mode |-> a.sparse_mode,
    eval_mode |-> a.eval_mode,
    errs |-> NoErrors(dataErr),
    cs_case_info |-> "NO_CASE_INFO",
    cs_enforcement_info |-> "NO_ENFORCEMENT_INFO",
    auto_interpen_check |-> FALSE,
    enable_timestep_vote |-> a.enable_timestep_vote,
    m_nullMeshes |-> FALSE,
    m_isValid |-> TRUE,
    m_fixedBinning |-> FALSE,
    m_isBinned |-> FALSE,
    m_interface_pairs |-> << >>,
    m_contact_plane2d |-> 0,
    m_contact_plane3d |-> 0,
    m_mesh1 |-> NullView,
    m_mesh2 |-> NullView,
    m_methodData |-> "nullptr",
    m_exec_mode |-> "Unset",
    m_pairReportingData |->
      [ numBadOrientation |-> 0, numBadOverlaps |-> 0,
        numBadFaceGeometry |-> 0 ] ]

(***************************************************************************)
(* Validation                                                              *)
(***************************************************************************)
isValidMode(c) ==
  IF c.m_contactMode \notin ContactModes
  THEN [ok |-> FALSE, cs |-> [c EXCEPT !.errs.cs_mode_error = "INVALID_MODE"]]
  ELSE IF c.m_contactMode # "SURFACE_TO_SURFACE" /\
          c.m_contactMode # "SURFACE_TO_SURFACE_CONFORMING"
  THEN [ok |-> FALSE,
        cs |-> [c EXCEPT !.errs.cs_mode_error = "NO_MODE_IMPLEMENTATION"]]
  ELSE [ok |-> TRUE, cs |-> [c EXCEPT !.errs.cs_mode_error = "NO_MODE_ERROR"]]

\* (variant) no override of the case for conforming surfaces
CaseAfterModeKept(c) == c

\* the four overrides of the contact case, in the order of the code
CaseAfterMode(c) ==
  IF c.m_contactMode = "SURFACE_TO_SURFACE_CONFORMING" /\
     c.m_contactCase # "NO_SLIDING"
  THEN [c EXCEPT !.cs_case_info = "SPECIFYING_NO_SLIDING_WITH_REGISTERED_MODE",
                 !.m_contactCase = "NO_SLIDING"]
  ELSE c

CaseAfterAligned(c) ==
  IF c.m_contactMethod = "ALIGNED_MORTAR" /\ c.m_contactCase # "NO_SLIDING"
  THEN [c EXCEPT !.cs_case_info = "SPECIFYING_NO_SLIDING_WITH_REGISTERED_METHOD",
                 !.m_contactCase = "NO_SLIDING"]
  ELSE c

CaseAfterMortar(c) ==
  IF c.m_contactMethod \in {"SINGLE_MORTAR", "MORTAR_WEIGHTS"} /\
     c.m_contactCase # "NO_CASE" /\ c.m_contactCase # "NO_SLIDING"
  THEN [c EXCEPT !.cs_case_info = "SPECIFYING_NONE_WITH_REGISTERED_METHOD",
                 !.m_contactCase = "NO_CASE"]
  ELSE c

\* (variant) AUTO replaced by NO_CASE also for a mesh paired with itself
CaseAfterAutoAlways(c) ==
  IF c.m_contactCase = "AUTO"
  THEN [c EXCEPT !.cs_case_info = "SPECIFYING_NONE_WITH_TWO_REGISTERED_MESHES",
                 !.m_contactCase = "NO_CASE"]
  ELSE c

CaseAfterAuto(c) ==
  IF c.m_contactCase = "AUTO" /\ c.m_mesh_id1 # c.m_mesh_id2
  THEN [c EXCEPT !.cs_case_info = "SPECIFYING_NONE_WITH_TWO_REGISTERED_MESHES",
                 !.m_contactCase = "NO_CASE"]
  ELSE c

isValidCase(c, M) ==
  IF c.m_contactCase \notin ContactCases
  THEN [ok |-> FALSE, cs |-> [c EXCEPT !.errs.cs_case_error = "INVALID_CASE"]]
  ELSE
    LET c4 == CaseAfterAuto(CaseAfterMortar(CaseAfterAligned(CaseAfterMode(c))))
    IN IF c4.m_contactCase = "AUTO"
       THEN IF ~M[c4.m_mesh_id1].thickSet \/ ~M[c4.m_mesh_id2].thickSet
            THEN [ok |-> FALSE,
                  cs |-> [c4 EXCEPT !.auto_interpen_check = TRUE,
                                    !.errs.cs_case_error = "INVALID_CASE_DATA"]]
            ELSE [ok |-> TRUE,
                  cs |-> [c4 EXCEPT !.auto_interpen_check = TRUE,
                                    !.errs.cs_case_error = "NO_CASE_ERROR"]]
       ELSE [ok |-> TRUE,
             cs |-> [c4 EXCEPT !.auto_interpen_check = FALSE,
                               !.errs.cs_case_error = "NO_CASE_ERROR"]]

\* (variant) a rejection by the method check that sets no error
MethodFailUntagged(c, e) == [ok |-> FALSE, cs |-> c]

MethodFail(c, e) ==
  [ok |-> FALSE, cs |-> [c EXCEPT !.errs.cs_method_error = e]]

\* (variant) the method check without the checks of the mesh data
isValidMethodNoMeshChecks(c, M) ==
  IF c.m_contactMethod \notin ContactMethods
  THEN MethodFail(c, "INVALID_METHOD")
  ELSE [ok |-> TRUE,
        cs |-> [c EXCEPT !.errs.cs_method_error = "NO_METHOD_ERROR"]]

isValidMethod(c, M) ==
  LET mesh1 == M[c.m_mesh_id1]
      mesh2 == M[c.m_mesh_id2]
      dim == MeshDim(mesh1.V)
      mortar == c.m_contactMethod \in
                  {"ALIGNED_MORTAR", "MORTAR_WEIGHTS", "SINGLE_MORTAR"}
      pass == [ok |-> TRUE,
               cs |-> [c EXCEPT !.errs.cs_method_error = "NO_METHOD_ERROR"]]
  IN
  IF c.m_contactMethod \notin ContactMethods
  THEN MethodFail(c, "INVALID_METHOD")
  ELSE IF c.m_nullMeshes THEN pass
  ELSE IF mortar /\ mesh1.V # mesh2.V
  THEN MethodFail(c, "DIFFERENT_FACE_TYPES")
  ELSE IF mortar /\ c.m_mesh_id1 = c.m_mesh_id2
  THEN MethodFail(c, IF dim # 3 THEN "SAME_MESH_IDS_INVALID_DIM"
                                ELSE "SAME_MESH_IDS")
  ELSE IF mortar /\ dim # 3
  THEN MethodFail(c, "INVALID_DIM")
  ELSE IF c.m_contactMethod = "COMMON_PLANE" /\ mesh1.V # mesh2.V
  THEN MethodFail(c, "DIFFERENT_FACE_TYPES")
  ELSE IF ~mortar /\ c.m_contactMethod # "COMMON_PLANE"
  THEN MethodFail(c, "NO_METHOD_IMPLEMENTATION")
  ELSE IF c.m_contactMethod \in {"ALIGNED_MORTAR", "SINGLE_MORTAR",
                                 "COMMON_PLANE"} /\
          ( (mesh1.nElems > 0 /\ ~mesh1.respSet) \/
            (mesh2.nElems > 0 /\ ~mesh2.respSet) )
  THEN MethodFail(c, "NULL_NODAL_RESPONSE")
  ELSE pass

\* (variant) every model implemented for every method
ModelsOfAny(method) == ContactModels

\* the models a contact method has an implementation for
ModelsOf(method) ==
  CASE method \in {"SINGLE_MORTAR", "ALIGNED_MORTAR", "MORTAR_WEIGHTS"} ->
         {"FRICTIONLESS", "NULL_MODEL"}
    [] method = "COMMON_PLANE" -> {"FRICTIONLESS", "NULL_MODEL", "TIED"}
    [] OTHER -> ContactModels

isValidModel(c) ==
  IF c.m_contactModel \notin ContactModels
  THEN [ok |-> FALSE, cs |-> [c EXCEPT !.errs.cs_model_error = "INVALID_MODEL"]]
  ELSE IF c.m_contactModel \notin ModelsOf(c.m_contactMethod)
  THEN [ok |-> FALSE,
        cs |-> [c EXCEPT !.errs.cs_model_error =
                           "NO_MODEL_IMPLEMENTATION_FOR_REGISTERED_METHOD"]]
  ELSE [ok |-> TRUE, cs |-> [c EXCEPT !.errs.cs_model_error = "NO_MODEL_ERROR"]]

EnforcementFail(c, e) ==
  [ok |-> FALSE, cs |-> [c EXCEPT !.errs.cs_enforcement_error = e]]

EnforcementPass(c) ==
  [ok |-> TRUE,
   cs |-> [c EXCEPT !.errs.cs_enforcement_error = "NO_ENFORCEMENT_ERROR"]]

\* case MORTAR_WEIGHTS of isValidEnforcement: the two overrides, then the
\* check of the sparse mode
EnforcementMortarWeights(c) ==
  LET c1 == IF c.m_enforcementMethod # "NULL_ENFORCEMENT"
            THEN [c EXCEPT !.cs_enforcement_info =
                    "SPECIFYING_NULL_ENFORCEMENT_WITH_REGISTERED_METHOD",
                           !.m_enforcementMethod = "NULL_ENFORCEMENT"]
            ELSE c
      c2 == [c1 EXCEPT !.eval_mode = "MORTAR_WEIGHTS_EVAL"]
  IN IF c2.sparse_mode # "MFEM_LINKED_LIST"
     THEN EnforcementFail(c2,
            "NO_ENFORCEMENT_IMPLEMENTATION_FOR_REGISTERED_OPTION")
     ELSE EnforcementPass(c2)

\* case ALIGNED_MORTAR / SINGLE_MORTAR of isValidEnforcement
EnforcementMortar(c) ==
  IF c.m_enforcementMethod = "PENALTY"
  THEN EnforcementFail(c, "NO_ENFORCEMENT_IMPLEMENTATION_FOR_REGISTERED_METHOD")
  ELSE IF c.m_enforcementMethod # "LAGRANGE_MULTIPLIER"
  THEN EnforcementFail(c, "INVALID_ENFORCEMENT_FOR_REGISTERED_METHOD")
  ELSE IF ~c.lm_set
  THEN EnforcementFail(c, "OPTIONS_NOT_SET")
  ELSE IF c.sparse_mode # "MFEM_LINKED_LIST" /\
          c.sparse_mode # "MFEM_ELEMENT_DENSE"
  THEN EnforcementFail(c, "NO_ENFORCEMENT_IMPLEMENTATION_FOR_REGISTERED_OPTION")
  ELSE IF c.eval_mode = "MORTAR_WEIGHTS_EVAL"
  THEN EnforcementFail(c, "NO_ENFORCEMENT_IMPLEMENTATION_FOR_REGISTERED_OPTION")
  ELSE EnforcementPass(c)

\* case COMMON_PLANE of isValidEnforcement
EnforcementCommonPlane(c) ==
  IF c.m_enforcementMethod # "PENALTY"
  THEN EnforcementFail(c, "INVALID_ENFORCEMENT_FOR_REGISTERED_METHOD")
  ELSE IF ~c.penalty_set
  THEN EnforcementFail(c, "OPTIONS_NOT_SET")
  ELSE EnforcementPass(c)

isValidEnforcement(c) ==
  IF c.m_enforcementMethod \notin EnforcementMethods
  THEN EnforcementFail(c, "INVALID_ENFORCEMENT")
  ELSE CASE c.m_contactMethod = "MORTAR_WEIGHTS" -> EnforcementMortarWeights(c)
         [] c.m_contactMethod \in {"ALIGNED_MORTAR", "SINGLE_MORTAR"} ->
              EnforcementMortar(c)
         [] c.m_contactMethod = "COMMON_PLANE" -> EnforcementCommonPlane(c)
         [] OTHER -> EnforcementPass(c)

checkEnforcementData(c, M) ==
  LET mesh1 == M[c.m_mesh_id1]
      mesh2 == M[c.m_mesh_id2]
      err ==
        CASE c.m_contactMethod \in {"ALIGNED_MORTAR", "SINGLE_MORTAR"} ->
               IF c.m_enforcementMethod = "LAGRANGE_MULTIPLIER" /\
                  checkLagrangeMultiplierData(mesh2) # 0
               THEN 1 ELSE 0
          [] c.m_contactMethod = "COMMON_PLANE" ->
               IF c.m_enforcementMethod = "PENALTY" /\
                  ( checkPenaltyData(mesh1) # 0 \/ checkPenaltyData(mesh2) # 0 )
               THEN 1 ELSE 0
          [] OTHER -> 0
  IN [err |-> err,
      cs |-> [c EXCEPT !.errs.cs_enforcement_data_error =
                IF err = 1 THEN "ERROR_IN_REGISTERED_ENFORCEMENT_DATA"
                           ELSE "NO_ENFORCEMENT_DATA_ERROR"]]

\* the marking of both meshes as invalid (element types or memory spaces differ)
MarkInvalid(c, M) ==
  [id \in DOMAIN M |->
     IF id \in {c.m_mesh_id1, c.m_mesh_id2}
     THEN [M[id] EXCEPT !.valid = FALSE] ELSE M[id]]

MeshesAfterTypeCheck(c, M) ==
  IF ElementType(M[c.m_mesh_id1].V) # ElementType(M[c.m_mesh_id2].V)
  THEN MarkInvalid(c, M) ELSE M

MeshesAfterSpaceCheck(c, M) ==
  IF M[c.m_mesh_id1].memSpace # M[c.m_mesh_id2].memSpace
  THEN MarkInvalid(c, M) ELSE M

\* one more check: r is the verdict so far and the scheme it left, s the
\* verdict of the next check and the scheme it left
AndThen(r, s) == [ok |-> r.ok /\ s.ok, cs |-> s.cs]

\* checkEnforcementData is called only on a valid enforcement (r: the result of
\* isValidEnforcement)
DataVerdict(d) == [ok |-> d.err = 0, cs |-> d.cs]

EnforcementDataAfter(r, M) ==
  IF r.ok THEN DataVerdict(checkEnforcementData(r.cs, M)) ELSE r

\* the checks after the mesh checks, each on the scheme the previous one
\* left; valid is the conjunction of their results
ValidateFromEnforcement(r, M) ==
  AndThen(r, EnforcementDataAfter(isValidEnforcement(r.cs), M))

ValidateFromModel(r, M) ==
  ValidateFromEnforcement(AndThen(r, isValidModel(r.cs)), M)

ValidateFromMethod(r, M) ==
  ValidateFromModel(AndThen(r, isValidMethod(r.cs, M)), M)

ValidateFromCase(r, M) ==
  ValidateFromMethod(AndThen(r, isValidCase(r.cs, M)), M)

ValidateSettings(c, M) == ValidateFromCase(isValidMode(c), M)

\* (variant) m_nullMeshes follows the meshes of the latest validation
NullMeshCheckFollows(c, M) ==
  [c EXCEPT !.m_nullMeshes =
     M[c.m_mesh_id1].nElems <= 0 \/ M[c.m_mesh_id2].nElems <= 0]

\* sets m_nullMeshes when a mesh has no elements; it is never reset
NullMeshCheck(c, M) ==
  IF M[c.m_mesh_id1].nElems <= 0 \/ M[c.m_mesh_id2].nElems <= 0
  THEN [c EXCEPT !.m_nullMeshes = TRUE] ELSE c

WithMeshes(r, M) == [ok |-> r.ok, cs |-> r.cs, meshes |-> M]

\* (variant) the settings checks run whatever the valid flags of the meshes
ValidateOnMeshesAnyFlag(c, M) ==
  WithMeshes(ValidateSettings(NullMeshCheck(c, M), M), M)

\* isValidCouplingScheme() from the check of the valid flags of the meshes on;
\* M: the meshes after the comparison of element types and memory spaces
ValidateOnMeshes(c, M) ==
  IF ~M[c.m_mesh_id1].valid \/ ~M[c.m_mesh_id2].valid
  THEN [ok |-> FALSE, cs |-> c, meshes |-> M]
  ELSE WithMeshes(ValidateSettings(NullMeshCheck(c, M), M), M)

isValidCouplingScheme(c, M) ==
  IF ~M[c.m_mesh_id1].registered \/ ~M[c.m_mesh_id2].registered
  THEN [ok |-> FALSE, cs |-> c, meshes |-> M]
  ELSE ValidateOnMeshes(c, MeshesAfterSpaceCheck(c, MeshesAfterTypeCheck(c, M)))

(***************************************************************************)
(* init()                                                                  *)
(***************************************************************************)
\* MeshData::getView: what the coupling scheme later reads through the view
getView(m) ==
  [isNull |-> FALSE, V |-> m.V, nElems |-> m.nElems, velSet |-> m.velSet]

\* the execution mode init() selects; build: the TRIBOL_USE_* macros defined.
\* "Unset" stands for the member as the constructor, which does not
\* initialise it, and a switch that matches no case leave it.
SelectExecMode(build, memSpace, given) ==
  IF "RAJA" \notin build THEN "Sequential"
  ELSE CASE memSpace = "Dynamic" ->
              IF "UMPIRE" \in build
              THEN (IF given = "Dynamic" THEN "Sequential" ELSE given)
              ELSE "Sequential"
         [] memSpace \in {"Unified", "Device"} /\ "UMPIRE" \notin build ->
              "Unset"
         [] memSpace = "Unified" ->
              IF given # "Dynamic" THEN given
              ELSE IF "HIP" \in build THEN "Hip"
              ELSE IF "CUDA" \in build THEN "Cuda"
              ELSE "Dynamic"
         [] memSpace = "Host" ->
              IF given = "Sequential" THEN "Sequential"
              ELSE IF given = "OpenMP" /\ "OPENMP" \in build THEN "OpenMP"
              ELSE IF given = "Dynamic"
              THEN (IF "OPENMP" \in build THEN "OpenMP" ELSE "Sequential")
              ELSE "Sequential"
         [] OTHER ->
              IF (given = "Cuda" /\ "CUDA" \in build) \/
                 (given = "Hip" /\ "HIP" \in build)
              THEN given ELSE "Sequential"

allocateMethodData(c, M) ==
  IF M[c.m_mesh_id1].nElems > 0 /\ M[c.m_mesh_id2].nElems > 0
  THEN [c EXCEPT !.m_methodData =
          IF c.m_contactMethod \in {"ALIGNED_MORTAR", "MORTAR_WEIGHTS",
                                    "SINGLE_MORTAR"}
          THEN "MortarData" ELSE "nullptr"]
  ELSE c

\* init(): [val: what init() returns, cs, meshes]
InitFailed(c, M) == [val |-> FALSE, cs |-> c, meshes |-> M]

\* the end of init(): the method data and the two mesh views
InitSucceeded(c, M) ==
  [val |-> TRUE,
   cs |-> [allocateMethodData(c, M) EXCEPT
             !.m_mesh1 = getView(M[c.m_mesh_id1]),
             !.m_mesh2 = getView(M[c.m_mesh_id2])],
   meshes |-> M]

\* init() after the validation; c: the scheme with m_isValid set, mode: the
\* execution mode selected
InitAfterValid(valid, c, M, mode) ==
  IF ~valid THEN InitFailed(c, M)
  ELSE IF c.m_contactMethod # "COMMON_PLANE" /\ mode # "Sequential"
  THEN InitFailed([c EXCEPT !.m_exec_mode = mode], M)
  ELSE InitSucceeded([c EXCEPT !.m_exec_mode = mode], M)

\* r: the result of isValidCouplingScheme()
InitOn(r, a) ==
  InitAfterValid(r.ok, [r.cs EXCEPT !.m_isValid = r.ok], r.meshes,
                 SelectExecMode(a.build, r.meshes[r.cs.m_mesh_id1].memSpace,
                                a.given_exec_mode))

init(c, M, a) == InitOn(isValidCouplingScheme(c, M), a)

(***************************************************************************)
(* performBinning()                                                        *)
(***************************************************************************)
setFixedBinning(c, pred) == [c EXCEPT !.m_fixedBinning = pred]

\* (variant) the case never pins the binning
setFixedBinningPerCaseNever(c) == c

setFixedBinningPerCase(c) ==
  IF c.m_isBinned /\ c.m_contactCase = "NO_SLIDING"
  THEN [c EXCEPT !.m_fixedBinning = TRUE] ELSE c

setBinned(c, pred) == [c EXCEPT !.m_isBinned = pred]

hasFixedBinning(c) == c.m_fixedBinning

RECURSIVE Pick(_, _, _)
\* the elements of s at the indices in I, from index k on, in order
Pick(s, I, k) ==
  IF k > Len(s) THEN << >>
  ELSE (IF k \in I THEN <<s[k]>> ELSE << >>) \o Pick(s, I, k + 1)

\* all pairs of a face of mesh 1 and a face of mesh 2, row by row
AllPairs(n1, n2) ==
  [k \in 1..(n1 * n2) |->
     [id1 |-> ((k - 1) \div n2) + 1, id2 |-> ((k - 1) % n2) + 1,
      m_is_contact_candidate |-> TRUE]]

\* the pair lists the pair finder can produce: every pair under the Cartesian
\* product, a sublist of them (the pairs sharing a grid cell) under the grid
FinderOutputs(method, n1, n2) ==
  IF method = "BINNING_CARTESIAN_PRODUCT" THEN {AllPairs(n1, n2)}
  ELSE {Pick(AllPairs(n1, n2), I, 1) : I \in SUBSET (1..(n1 * n2))}

\* InterfacePairFinder::findInterfacePairs: stores the pairs found and marks
\* the coupling scheme as binned
findInterfacePairs(c, found) ==
  setBinned([c EXCEPT !.m_interface_pairs = found], TRUE)

\* (variant) performBinning() without the pin of the Cartesian product
performBinningNoPin(c, found) ==
  IF ~c.m_nullMeshes /\ ~c.m_fixedBinning
  THEN [c EXCEPT !.m_interface_pairs = found, !.m_isBinned = TRUE,
                 !.m_fixedBinning = (c.m_contactCase = "NO_SLIDING")]
  ELSE c

\* performBinning() of a scheme whose mesh views are set; found: the pairs the
\* finder produces
performBinning(c, found) ==
  IF ~c.m_nullMeshes /\ ~hasFixedBinning(c)
  THEN LET c1 == findInterfacePairs([c EXCEPT !.m_interface_pairs = << >>],
                                    found)
           c2 == IF c1.m_binningMethod = "BINNING_CARTESIAN_PRODUCT"
                 THEN setFixedBinning(c1, TRUE) ELSE c1
       IN setFixedBinningPerCase(c2)
  ELSE c

\* does this performBinning() call reach the pair finder
InvokesFinder(c) == ~c.m_nullMeshes /\ ~hasFixedBinning(c)

(***************************************************************************)
(* apply()                                                                 *)
(***************************************************************************)
\* what CheckInterfacePair reports for one pair: a contact plane is committed
\* exactly when it reports no error and sets interact
PairOutcomes ==
  {[err |-> "NO_FACE_GEOM_ERROR", interact |-> b] : b \in BOOLEAN} \cup
  {[err |-> e, interact |-> FALSE] : e \in FaceGeomErrors \ {"NO_FACE_GEOM_ERROR"}}

\* (variant) a pair with a face-geometry error stays a contact candidate
FlagKeptOnError(o) ==
  IF o.err # "NO_FACE_GEOM_ERROR" THEN TRUE ELSE o.interact

\* the flag the kernel of apply() leaves on a pair
FlagAfterCheck(o) ==
  IF o.err # "NO_FACE_GEOM_ERROR" THEN FALSE
  ELSE IF ~o.interact THEN FALSE
  ELSE TRUE

\* the number of contact planes CheckInterfacePair committed (planes_ct)
PlanesCommitted(outcomes) ==
  Cardinality({i \in DOMAIN outcomes : outcomes[i].interact})

getNumActivePairs(c) ==
  IF c.m_contact_plane2d >= c.m_contact_plane3d
  THEN c.m_contact_plane2d ELSE c.m_contact_plane3d

\* (variant) both contact-plane arrays sized to the planes committed
PlanesInBothArrays(c, dim, ct) ==
  [c EXCEPT !.m_contact_plane2d = ct, !.m_contact_plane3d = ct]

\* the sizes of the two contact-plane arrays after the kernel: allocated for
\* numPairs planes in the array of the dimension, then resized to planes_ct
PlanesAfterKernel(c, dim, ct) ==
  IF dim = 2
  THEN [c EXCEPT !.m_contact_plane2d = ct, !.m_contact_plane3d = 0]
  ELSE [c EXCEPT !.m_contact_plane2d = 0, !.m_contact_plane3d = ct]

\* the pair list after the kernel of apply()
PairsAfterKernel(c, outcomes) ==
  [c EXCEPT !.m_interface_pairs =
     [i \in DOMAIN c.m_interface_pairs |->
        [c.m_interface_pairs[i] EXCEPT
           !.m_is_contact_candidate = FlagAfterCheck(outcomes[i])]]]

SetMin(S) == CHOOSE x \in S : \A y \in S : x <= y
SetMax(S) == CHOOSE x \in S : \A y \in S : x >= y

Min2(a, b) == IF a <= b THEN a ELSE b

\* the value 1.e6 a face's estimate starts from and is capped at
VoteCap == MaxDt + 1

\* dt1 (dt2) after a check: the estimate of the check if it triggered
FaceVote(held, check, est) == IF check THEN est ELSE held

\* (variant) the estimate enters the minimum whatever its sign
VoteMinAnySign(temp, v) == Min2(temp, Min2(v, VoteCap))

\* the guarded atomicMin of dt_temp[k] with the capped estimate
VoteMin(temp, v) == IF v > 0 THEN Min2(temp, Min2(v, VoteCap)) ELSE temp

\* p: what the kernel derives from one plane: in contact or not, and for each
\* check and face whether it triggered and the estimate it computed.
\* <<dt1, dt2>> after check 1 (the gap check, on planes in contact only)
AfterCheck1(p) ==
  IF p.inContact
  THEN <<FaceVote(VoteCap, p.dt1_check1.check, p.dt1_check1.est),
         FaceVote(VoteCap, p.dt2_check1.check, p.dt2_check1.est)>>
  ELSE <<VoteCap, VoteCap>>

\* <<dt1, dt2>> after check 2 (the velocity projection); d: after check 1
AfterCheck2(d, p) ==
  <<FaceVote(d[1], p.dt1_vel_check.check, p.dt1_vel_check.est),
    FaceVote(d[2], p.dt2_vel_check.check, p.dt2_vel_check.est)>>

\* one iteration of the kernel on dt_temp = t; d: <<dt1, dt2>> after check 1,
\* e: after check 2
PairKernelOn(t, p, d, e) ==
  << IF p.inContact THEN VoteMin(VoteMin(t[1], d[1]), d[2]) ELSE t[1],
     VoteMin(VoteMin(t[2], e[1]), e[2]) >>

PairKernel(t, p) ==
  PairKernelOn(t, p, AfterCheck1(p), AfterCheck2(AfterCheck1(p), p))

\* votes: the values of dt1 and dt2 the kernel holds, over all active planes,
\* where it updates dt_temp
computeCommonPlaneTimeStep(c, dt, votes) ==
  IF c.kinematic_constant THEN dt
  ELSE SetMin({dt} \cup {Min2(v, VoteCap) : v \in {w \in votes : w > 0}})

\* (variant) the velocities are looked at before the size of dt
computeTimeStepVelocityFirst(c, dt, votes) ==
  IF ~c.m_mesh1.velSet \/ ~c.m_mesh2.velSet
  THEN (IF c.m_mesh1.nElems > 0 /\ c.m_mesh2.nElems > 0 THEN -1 ELSE dt)
  ELSE IF dt < 1 THEN dt
  ELSE IF c.m_contactMethod = "COMMON_PLANE" /\
          c.m_enforcementMethod = "PENALTY" /\ c.enable_timestep_vote
  THEN computeCommonPlaneTimeStep(c, dt, votes)
  ELSE dt

\* dt = 0 stands for a timestep below 1.e-8
computeTimeStep(c, dt, votes) ==
  IF dt < 1 THEN dt
  ELSE IF ~c.m_mesh1.velSet \/ ~c.m_mesh2.velSet
  THEN (IF c.m_mesh1.nElems > 0 /\ c.m_mesh2.nElems > 0 THEN -1 ELSE dt)
  ELSE IF c.m_contactMethod = "COMMON_PLANE" /\
          c.m_enforcementMethod = "PENALTY" /\ c.enable_timestep_vote
  THEN computeCommonPlaneTimeStep(c, dt, votes)
  ELSE dt

(***************************************************************************)
(* The gap tolerance, by the scheme and by its view                        *)
(***************************************************************************)
Max2(a, b) == IF a >= b THEN a ELSE b

\* (variant) the tolerance of the other models for TIED as well
getGapTolNoTied(c, P, r1, r2) ==
  IF c.m_contactMethod = "COMMON_PLANE"
  THEN -1 * P.gap_tol_ratio * Max2(r1, r2) ELSE 0

\* P: m_parameters; r1, r2: getFaceRadii()[fid1] of mesh 1 and [fid2] of mesh 2
getGapTol(c, P, r1, r2) ==
  CASE c.m_contactMethod \in {"SINGLE_MORTAR", "ALIGNED_MORTAR",
                              "MORTAR_WEIGHTS"} -> 0
    [] c.m_contactMethod = "COMMON_PLANE" ->
         IF c.m_contactModel = "TIED"
         THEN P.gap_tied_tol * Max2(r1, r2)
         ELSE -1 * P.gap_tol_ratio * Max2(r1, r2)
    [] OTHER -> 0

\* the view getView() constructs from the scheme
ViewerBase(c, P) ==
  [ m_parameters |-> P, m_contact_model |-> c.m_contactModel,
    m_mesh1 |-> c.m_mesh1, m_mesh2 |-> c.m_mesh2,
    m_contact_plane2d |-> c.m_contact_plane2d,
    m_contact_plane3d |-> c.m_contact_plane3d ]

getCommonPlaneGapTol(v, r1, r2) ==
  IF v.m_contact_model = "TIED"
  THEN v.m_parameters.gap_tied_tol * Max2(r1, r2)
  ELSE -1 * v.m_parameters.gap_tol_ratio * Max2(r1, r2)

\* apply(): [val: what apply() returns, cs, dt: the timestep handed back]
\* dim: spatialDimension(); outcomes: the result of CheckInterfacePair for
\* each pair; physErr: what ApplyInterfacePhysics returns
\* c: the scheme after the kernel
ApplyAfterKernel(c, physErr, dt, votes) ==
  [val |-> IF physErr # 0 THEN 1 ELSE 0, cs |-> c,
   dt |-> IF physErr = 0 /\ getNumActivePairs(c) > 0
          THEN computeTimeStep(c, dt, votes) ELSE dt]

apply(c, dim, outcomes, physErr, dt, votes) ==
  ApplyAfterKernel(PlanesAfterKernel(PairsAfterKernel(c, outcomes), dim,
                                     PlanesCommitted(outcomes)),
                   physErr, dt, votes)

\* spatialDimension() as apply() reads it through the view of mesh 1
spatialDimension(c) == MeshDim(c.m_mesh1.V)

(***************************************************************************)
(* The host: registration of a mesh                                        *)
(***************************************************************************)
\* a registered mesh with V vertices per face and n faces
Mesh(V, n, resp, vel) ==
  [ registered |-> TRUE, valid |-> TRUE, V |-> V, nElems |-> n,
    memSpace |-> "Host", respSet |-> resp, velSet |-> vel,
    thickSet |-> FALSE, lmDataOk |-> TRUE, penDataOk |-> TRUE ]

\* the arguments the coupling scheme is created with in its life cycle
LifeArgs ==
  [ mesh_id1 : {1}, mesh_id2 : {2},
    mode : {"SURFACE_TO_SURFACE"},
    case : {"NO_CASE", "NO_SLIDING"},
    method : {"COMMON_PLANE"},
    model : {"FRICTIONLESS"},
    enforcement : {"PENALTY"},
    binning : BinningMethods,
    penalty_set : {TRUE}, kinematic_constant : {FALSE}, lm_set : {FALSE},
    sparse_mode : {"MFEM_LINKED_LIST"},
    eval_mode : {"MORTAR_RESIDUAL_JACOBIAN"},
    enable_timestep_vote : {TRUE},
    build : {{}}, given_exec_mode : {"Dynamic"} ]

(***************************************************************************)
(* Life cycle of a coupling scheme                                         *)
(***************************************************************************)
\* one triangle on mesh 1, up to MaxPairs triangles on mesh 2
Init ==
  /\ req \in LifeArgs
  /\ \E n \in 0..MaxPairs :
       meshes = [id \in MeshIds |->
                   Mesh(3, IF id = 1 THEN 1 ELSE n, TRUE, TRUE)]
  /\ \E e \in EnforcementDataErrors : cs = Construct(req, e)
  /\ ret = [op |-> "construct"]
  /\ crashed = FALSE

\* the host registers mesh 2 anew: another number of faces of the same type,
\* with or without a nodal response
RegisterMesh ==
  /\ ~crashed
  /\ \E n \in 0..MaxPairs, resp \in BOOLEAN :
       meshes' = [meshes EXCEPT ![2] = Mesh(meshes[1].V, n, resp, TRUE)]
  /\ ret' = [op |-> "registerMesh"]
  /\ UNCHANGED <<cs, req, crashed>>

\* r: what init() returns and leaves behind
InitEffect(r) ==
  /\ cs' = r.cs
  /\ meshes' = r.meshes
  /\ ret' = [op |-> "init", val |-> r.val]

InitCS ==
  /\ ~crashed
  /\ InitEffect(init(cs, meshes, req))
  /\ UNCHANGED <<req, crashed>>

\* performBinning() on a scheme whose mesh views are set, or that does not
\* reach the pair finder
PerformBinning ==
  /\ ~crashed
  /\ ~cs.m_mesh1.isNull \/ ~InvokesFinder(cs)
  /\ \E found \in (IF InvokesFinder(cs)
                   THEN FinderOutputs(cs.m_binningMethod, cs.m_mesh1.nElems,
                                      cs.m_mesh2.nElems)
                   ELSE {<< >>}) :
       cs' = performBinning(cs, found)
  /\ ret' = [op |-> "performBinning", finder |-> InvokesFinder(cs)]
  /\ UNCHANGED <<meshes, req, crashed>>

\* performBinning() reaching the pair finder with null mesh views: the finder
\* dereferences a null pointer
PerformBinningNull ==
  /\ ~crashed
  /\ cs.m_mesh1.isNull /\ InvokesFinder(cs)
  /\ crashed' = TRUE
  /\ ret' = [op |-> "crash"]
  /\ UNCHANGED <<meshes, cs, req>>

\* the numbers of pairs of this cycle per face-geometry error
ErrorTally(outcomes) ==
  [e \in FaceGeomErrors \ {"NO_FACE_GEOM_ERROR"} |->
     Cardinality({i \in DOMAIN outcomes : outcomes[i].err = e})]

\* the timestep votes of the planes of a cycle: the default vote 1.e6 (above
\* every dt), alone or with the smallest positive vote or a negative vote
VoteSets == {{MaxDt + 1}, {1, MaxDt + 1}, {-1, MaxDt + 1}}

\* r: what apply() returns and leaves behind
ApplyEffect(r, outcomes, physErr, dt) ==
  /\ cs' = r.cs
  /\ ret' = [op |-> "apply", val |-> r.val, physErr |-> physErr,
             dtIn |-> dt, dtOut |-> r.dt,
             numPairs |-> Len(cs.m_interface_pairs),
             outcomes |-> outcomes, tally |-> ErrorTally(outcomes)]

\* apply() on a scheme whose mesh views are set, with the outcomes of the
\* pair checks drawn from O, the timestep from D and the votes from Vs
ApplyWith(O, D, Vs) ==
  /\ ~crashed
  /\ ~cs.m_mesh1.isNull
  /\ \E outcomes \in [1..Len(cs.m_interface_pairs) -> O],
        physErr \in {0, 1}, dt \in D, votes \in Vs :
       ApplyEffect(apply(cs, spatialDimension(cs), outcomes, physErr, dt,
                         votes), outcomes, physErr, dt)
  /\ UNCHANGED <<meshes, req, crashed>>

\* in the life cycle the faces are well formed: a pair interacts or does not
LifeOutcomes == {o \in PairOutcomes : o.err = "NO_FACE_GEOM_ERROR"}

Apply == ApplyWith(LifeOutcomes, {MaxDt}, {{MaxDt + 1}, {1, MaxDt + 1}})

\* apply() with null mesh views: spatialDimension() dereferences a null pointer
ApplyNull ==
  /\ ~crashed
  /\ cs.m_mesh1.isNull
  /\ crashed' = TRUE
  /\ ret' = [op |-> "crash"]
  /\ UNCHANGED <<meshes, cs, req>>

(***************************************************************************)
(* Cycles of apply() on a scheme that init() accepted and that was binned   *)
(***************************************************************************)
ApplyArgs ==
  {a \in LifeArgs : a.case = "NO_CASE" /\
                    a.binning = "BINNING_CARTESIAN_PRODUCT"}

\* the scheme after the constructor, a successful init() and performBinning()
InitApply ==
  /\ req \in ApplyArgs
  /\ \E V \in {2, 3, 4}, n \in 0..MaxPairs :
       meshes = [id \in MeshIds |->
                   Mesh(V, IF id = 1 THEN 1 ELSE n, TRUE, TRUE)]
  /\ \E e \in EnforcementDataErrors :
       cs = performBinning(init(Construct(req, e), meshes, req).cs,
                           AllPairs(1, meshes[2].nElems))
  /\ ret = [op |-> "performBinning", finder |-> meshes[2].nElems > 0]
  /\ crashed = FALSE

\* a cycle with every outcome of the pair checks
ApplyCycle ==
  ApplyWith(PairOutcomes, {MaxDt}, {{MaxDt + 1}, {1, MaxDt + 1}})

NextApply ==
  \/ PerformBinning
  \/ ApplyCycle

SpecApply == InitApply /\ [][NextApply]_vars

(***************************************************************************)
(* Validation of a configuration: the scheme as constructed, validated on   *)
(* the meshes the host registered                                          *)
(***************************************************************************)
\* a mesh as the host left it in the mesh manager
MeshWith(V, n, reg, valid, mem, resp, thick, dataOk) ==
  [ registered |-> reg, valid |-> valid, V |-> V, nElems |-> n,
    memSpace |-> mem, respSet |-> resp, velSet |-> TRUE,
    thickSet |-> thick, lmDataOk |-> dataOk, penDataOk |-> dataOk ]

\* every combination of the settings, on two distinct meshes
ComboArgs ==
  [ mesh_id1 : {1}, mesh_id2 : {2},
    mode : ContactModes, case : CaseArgs, method : ContactMethods,
    model : ContactModels, enforcement : EnforcementMethods,
    binning : {"BINNING_GRID"},
    penalty_set : BOOLEAN, kinematic_constant : {FALSE}, lm_set : BOOLEAN,
    sparse_mode : SparseModes, eval_mode : EvalModes,
    enable_timestep_vote : {FALSE},
    build : {{}}, given_exec_mode : {"Dynamic"} ]

\* the settings tried on every kind of mesh pair, also a mesh paired with itself
MeshCaseArgs ==
  [ mesh_id1 : {1}, mesh_id2 : MeshIds,
    mode : {"SURFACE_TO_SURFACE"}, case : {"NO_CASE", "AUTO"},
    method : ContactMethods, model : {"FRICTIONLESS"},
    enforcement : {"PENALTY", "LAGRANGE_MULTIPLIER"},
    binning : {"BINNING_GRID"},
    penalty_set : {TRUE}, kinematic_constant : {FALSE}, lm_set : {TRUE},
    sparse_mode : {"MFEM_LINKED_LIST"},
    eval_mode : {"MORTAR_RESIDUAL_JACOBIAN"},
    enable_timestep_vote : {FALSE},
    build : {{}}, given_exec_mode : {"Dynamic"} ]

\* mesh 2 as the host can leave it: not registered, registered and deemed
\* invalid, or registered; empty or not; with or without its data
Mesh2Kinds ==
  { MeshWith(3, 1, FALSE, TRUE, "Host", TRUE, FALSE, TRUE),
    MeshWith(3, 1, TRUE, FALSE, "Host", TRUE, FALSE, TRUE) } \cup
  { MeshWith(V, n, TRUE, TRUE, mem, resp, thick, dataOk) :
      V \in {2, 3, 4}, n \in {0, 1}, mem \in {"Host", "Device"},
      resp \in BOOLEAN, thick \in BOOLEAN, dataOk \in BOOLEAN }

InitValid ==
  /\ \/ /\ req \in ComboArgs
        /\ \E V \in {3, 4} :
             meshes = [id \in MeshIds |-> Mesh(V, 1, TRUE, TRUE)]
     \/ /\ req \in MeshCaseArgs
        /\ \E V \in {2, 3}, thick \in BOOLEAN, m2 \in Mesh2Kinds :
             meshes = [id \in MeshIds |->
                         IF id = 1
                         THEN MeshWith(V, 1, TRUE, TRUE, "Host", TRUE, thick,
                                       TRUE)
                         ELSE m2]
  /\ \E e \in EnforcementDataErrors : cs = Construct(req, e)
  /\ ret = [op |-> "construct"]
  /\ crashed = FALSE

\* r: what isValidCouplingScheme() returns and leaves behind
ValidateEffect(r) ==
  /\ cs' = r.cs
  /\ meshes' = r.meshes
  /\ ret' = [op |-> "isValidCouplingScheme", val |-> r.ok]

ValidateCS ==
  /\ ValidateEffect(isValidCouplingScheme(cs, meshes))
  /\ UNCHANGED <<req, crashed>>

\* r: what isValidCase() returns and leaves behind
ValidateCaseEffect(r) ==
  /\ cs' = r.cs
  /\ ret' = [op |-> "isValidCase", val |-> r.ok,
             caseBefore |-> cs.m_contactCase]

\* isValidCase() on its own, on registered meshes
ValidateCase ==
  /\ meshes[cs.m_mesh_id1].registered /\ meshes[cs.m_mesh_id2].registered
  /\ ValidateCaseEffect(isValidCase(cs, meshes))
  /\ UNCHANGED <<meshes, req, crashed>>

NextValid ==
  \/ ValidateCS
  \/ ValidateCase
  \/ InitCS

SpecValid == InitValid /\ [][NextValid]_vars

(***************************************************************************)
(* Schemes constructed and initialised on meshes that the host registers   *)
(* anew, with element types and memory spaces that may differ              *)
(***************************************************************************)
\* a COMMON_PLANE scheme on any two of the meshes, one mesh twice included
MeshArgs ==
  [ mesh_id1 : MeshIds, mesh_id2 : MeshIds,
    mode : {"SURFACE_TO_SURFACE"}, case : {"NO_CASE"},
    method : {"COMMON_PLANE"}, model : {"FRICTIONLESS"},
    enforcement : {"PENALTY"},
    binning : {"BINNING_GRID"},
    penalty_set : {TRUE}, kinematic_constant : {FALSE}, lm_set : {FALSE},
    sparse_mode : {"MFEM_LINKED_LIST"},
    eval_mode : {"MORTAR_RESIDUAL_JACOBIAN"},
    enable_timestep_vote : {FALSE},
    build : {{}}, given_exec_mode : {"Dynamic"} ]

\* a registered one-face mesh with all its data
MeshKinds ==
  { MeshWith(V, 1, TRUE, TRUE, mem, TRUE, FALSE, TRUE) :
      V \in {3, 4}, mem \in {"Host", "Device"} }

InitMesh ==
  /\ req \in MeshArgs
  /\ meshes \in [MeshIds -> MeshKinds]
  /\ cs = Construct(req, "NO_ENFORCEMENT_DATA_ERROR")
  /\ ret = [op |-> "construct"]
  /\ crashed = FALSE

\* the host registers a mesh anew under its id; the new mesh is valid
RegisterMeshAs ==
  /\ \E id \in MeshIds, m \in MeshKinds :
       /\ meshes' = [meshes EXCEPT ![id] = m]
       /\ ret' = [op |-> "registerMesh", id |-> id]
  /\ UNCHANGED <<cs, req, crashed>>

\* the host replaces the scheme by a new one on the meshes of its choice
NewScheme ==
  /\ \E a \in MeshArgs :
       /\ req' = a
       /\ cs' = Construct(a, "NO_ENFORCEMENT_DATA_ERROR")
  /\ ret' = [op |-> "construct"]
  /\ UNCHANGED <<meshes, crashed>>

NextMesh ==
  \/ RegisterMeshAs
  \/ NewScheme
  \/ ValidateCS
  \/ InitCS

SpecMesh == InitMesh /\ [][NextMesh]_vars

(***************************************************************************)
(* init() under every build, memory space and requested execution mode     *)
(***************************************************************************)
ExecutionModes == {"Sequential", "OpenMP", "Cuda", "Hip", "Dynamic"}

\* the sets of TRIBOL_USE_* macros of a build; CUDA and HIP builds are
\* RAJA and Umpire builds, and exclude each other
Builds ==
  { b \in SUBSET {"RAJA", "UMPIRE", "OPENMP", "CUDA", "HIP"} :
      /\ ~({"CUDA", "HIP"} \subseteq b)
      /\ (b \cap {"CUDA", "HIP"} # {}) => {"RAJA", "UMPIRE"} \subseteq b }

\* the memory spaces a build has: device and unified memory need a device
MemorySpacesOf(b) ==
  {"Dynamic", "Host"} \cup
  (IF b \cap {"CUDA", "HIP"} # {} THEN {"Device", "Unified"} ELSE {})

ExecArgs ==
  [ mesh_id1 : {1}, mesh_id2 : {2},
    mode : {"SURFACE_TO_SURFACE"}, case : {"NO_CASE"},
    method : {"COMMON_PLANE", "SINGLE_MORTAR"}, model : {"FRICTIONLESS"},
    enforcement : {"PENALTY", "LAGRANGE_MULTIPLIER"},
    binning : {"BINNING_GRID"},
    penalty_set : {TRUE}, kinematic_constant : {FALSE}, lm_set : {TRUE},
    sparse_mode : {"MFEM_LINKED_LIST"},
    eval_mode : {"MORTAR_RESIDUAL_JACOBIAN"},
    enable_timestep_vote : {FALSE},
    build : Builds, given_exec_mode : ExecutionModes ]

InitExec ==
  /\ req \in ExecArgs
  /\ \E mem \in MemorySpacesOf(req.build) :
       meshes = [id \in MeshIds |->
                   MeshWith(4, 1, TRUE, TRUE, mem, TRUE, FALSE, TRUE)]
  /\ cs = Construct(req, "NO_ENFORCEMENT_DATA_ERROR")
  /\ ret = [op |-> "construct"]
  /\ crashed = FALSE

NextExec == InitCS

SpecExec == InitExec /\ [][NextExec]_vars

(***************************************************************************)
(* The timestep vote: computeTimeStep() and the kernel of                  *)
(* computeCommonPlaneTimeStep(), one iteration for each active plane       *)
(***************************************************************************)
VoteArgs ==
  [ mesh_id1 : {1}, mesh_id2 : {2},
    mode : {"SURFACE_TO_SURFACE"}, case : {"NO_CASE"},
    method : {"COMMON_PLANE"}, model : {"FRICTIONLESS"},
    enforcement : {"PENALTY"},
    binning : {"BINNING_GRID"},
    penalty_set : {TRUE}, kinematic_constant : BOOLEAN, lm_set : {FALSE},
    sparse_mode : {"MFEM_LINKED_LIST"},
    eval_mode : {"MORTAR_RESIDUAL_JACOBIAN"},
    enable_timestep_vote : BOOLEAN,
    build : {{}}, given_exec_mode : {"Dynamic"} ]

\* the scheme after the constructor and a successful init()
InitVote ==
  /\ req \in VoteArgs
  /\ meshes = [id \in MeshIds |-> Mesh(4, 1, TRUE, TRUE)]
  /\ cs = init(Construct(req, "NO_ENFORCEMENT_DATA_ERROR"), meshes, req).cs
  /\ ret = [op |-> "init", val |-> TRUE]
  /\ crashed = FALSE

\* the estimates of a check: negative, zero, below and above the cap
VoteValues == {-1, 0, 1, VoteCap + 1}

\* a check of a face: not triggered, or triggered with an estimate
FaceChecks ==
  {[check |-> FALSE, est |-> 0]} \cup
  {[check |-> TRUE, est |-> q] : q \in VoteValues}

PlaneVotes ==
  [ inContact : BOOLEAN,
    dt1_check1 : FaceChecks, dt2_check1 : FaceChecks,
    dt1_vel_check : FaceChecks, dt2_vel_check : FaceChecks ]

\* computeTimeStep() gets as far as the kernel of computeCommonPlaneTimeStep()
ReachesKernel(c, dt) ==
  /\ dt >= 1
  /\ c.m_mesh1.velSet /\ c.m_mesh2.velSet
  /\ c.m_contactMethod = "COMMON_PLANE"
  /\ c.m_enforcementMethod = "PENALTY"
  /\ c.enable_timestep_vote
  /\ ~c.kinematic_constant

\* computeTimeStep(dt) on n active planes: it returns at once, or sets
\* dt_temp = {dt, dt} and launches the kernel
VoteEnter ==
  /\ ret.op \in {"init", "computeTimeStep"}
  /\ \E dt \in 0..(VoteCap + 1), n \in 0..MaxPairs :
       ret' = IF ReachesKernel(cs, dt)
              THEN [op |-> "kernel", dtIn |-> dt, left |-> n,
                    dt_temp |-> <<dt, dt>>, votes |-> {}]
              ELSE [op |-> "computeTimeStep", dtIn |-> dt,
                    dtOut |-> computeTimeStep(cs, dt, {}),
                    votes |-> {}, voted |-> FALSE]
  /\ UNCHANGED <<cs, meshes, req, crashed>>

\* the values of dt1 and dt2 where the kernel updates dt_temp
VotesCastOn(p, d, e) ==
  (IF p.inContact THEN {d[1], d[2]} ELSE {}) \cup {e[1], e[2]}

VotesCast(p) ==
  VotesCastOn(p, AfterCheck1(p), AfterCheck2(AfterCheck1(p), p))

\* the kernel on one more active plane
VotePair ==
  /\ ret.op = "kernel" /\ ret.left > 0
  /\ \E p \in PlaneVotes :
       ret' = [ret EXCEPT !.left = @ - 1,
                          !.dt_temp = PairKernel(@, p),
                          !.votes = @ \cup VotesCast(p)]
  /\ UNCHANGED <<cs, meshes, req, crashed>>

\* after the kernel: dt = min(dt_temp[0], dt_temp[1])
VoteReturn ==
  /\ ret.op = "kernel" /\ ret.left = 0
  /\ ret' = [op |-> "computeTimeStep", dtIn |-> ret.dtIn,
             dtOut |-> Min2(ret.dt_temp[1], ret.dt_temp[2]),
             votes |-> ret.votes, voted |-> TRUE]
  /\ UNCHANGED <<cs, meshes, req, crashed>>

NextVote ==
  \/ VoteEnter
  \/ VotePair
  \/ VoteReturn

SpecVote == InitVote /\ [][NextVote]_vars

(***************************************************************************)
(* The gap tolerance of an initialised scheme                              *)
(***************************************************************************)
MaxRadius == 2

\* the host's settings of gap_tied_tol and gap_tol_ratio
GapParameters == [gap_tied_tol : 1..2, gap_tol_ratio : 1..2]

GapArgs ==
  [ mesh_id1 : {1}, mesh_id2 : {2},
    mode : {"SURFACE_TO_SURFACE"}, case : {"NO_CASE"},
    method : ContactMethods, model : ContactModels,
    enforcement : {"PENALTY", "LAGRANGE_MULTIPLIER"},
    binning : {"BINNING_GRID"},
    penalty_set : {TRUE}, kinematic_constant : {FALSE}, lm_set : {TRUE},
    sparse_mode : {"MFEM_LINKED_LIST"},
    eval_mode : {"MORTAR_RESIDUAL_JACOBIAN"},
    enable_timestep_vote : {FALSE},
    build : {{}}, given_exec_mode : {"Dynamic"},
    parameters : GapParameters ]

InitGap ==
  /\ req \in GapArgs
  /\ meshes = [id \in MeshIds |-> Mesh(4, 1, TRUE, TRUE)]
  /\ cs = Construct(req, "NO_ENFORCEMENT_DATA_ERROR")
  /\ ret = [op |-> "construct"]
  /\ crashed = FALSE

\* the tolerance of a face pair asked of the scheme and of a view of it
GapTol ==
  /\ ~crashed
  /\ ~cs.m_mesh1.isNull
  /\ \E r1 \in 1..MaxRadius, r2 \in 1..MaxRadius :
       ret' = [op |-> "getGapTol", r1 |-> r1, r2 |-> r2,
               tol |-> getGapTol(cs, req.parameters, r1, r2),
               viewTol |-> getCommonPlaneGapTol(
                             ViewerBase(cs, req.parameters), r1, r2)]
  /\ UNCHANGED <<cs, meshes, req, crashed>>

NextGap ==
  \/ InitCS
  \/ GapTol

SpecGap == InitGap /\ [][NextGap]_vars

\* ======== geom/GeomUtilities.cpp ========
\* Faces are sequences of vertices <<x, y>> in local 2D coordinates.  The
\* coordinates are integers and every quantity the code compares is kept
\* exact: a value the code divides by the vertex count is carried multiplied
\* by it, lengths are compared by their squares, and a quotient is compared
\* through the signs of its numerator and denominator.
NextVertex(i, n) == IF i = n THEN 1 ELSE i + 1
AbsVal(a) == IF a < 0 THEN -a ELSE a
VecSub(p, q) == <<p[1] - q[1], p[2] - q[2]>>
VecAdd(p, q) == <<p[1] + q[1], p[2] + q[2]>>
VecScale(k, p) == <<k * p[1], k * p[2]>>
DotProd(u, v) == u[1] * v[1] + u[2] * v[2]
CrossZ(u, v) == u[1] * v[2] - u[2] * v[1]
MagSq(u) == DotProd(u, u)

\* VertexAvgCentroid(): the sum of the vertices, i.e. numVert times the
\* centroid the code returns (fac = 1 / numVert)
RECURSIVE VertexAvgCentroid(_)
VertexAvgCentroid(P) ==
  IF P = <<>> THEN <<0, 0>> ELSE VecAdd(Head(P), VertexAvgCentroid(Tail(P)))

\* prod of CheckPolyOrientation() for segment i, times numVertex; C is
\* VertexAvgCentroid(P)
OrientProd(P, i, C) ==
  DotProd(VecSub(C, VecScale(Len(P), P[i])),
          <<-(P[NextVertex(i, Len(P))][2] - P[i][2]),
            P[NextVertex(i, Len(P))][1] - P[i][1]>>)

\* the orientation check accepts every face none of whose segments has the
\* centroid strictly on its right; a face without area has prod = 0 on every
\* segment and passes
CheckPolyOrientation(P) ==
  \A i \in 1..Len(P) : OrientProd(P, i, VertexAvgCentroid(P)) >= 0

\* Point2DInTri() on the dot products it computes.  invDet = 1.0 / det is
\* taken without a test: with det = 0 the quotient is +inf and u, v are each
\* +inf, -inf or NaN, so that (u >= 0) && (v >= 0) && (u + v <= 1) is false.
\* For det > 0, u and v are multiples of 1 / det and the 1.e-12 snap to zero
\* changes no sign.
TriTest(e11, e12, e22, p1e1, p1e2) ==
  IF e11 * e22 - e12 * e12 = 0
  THEN [inside |-> FALSE, divByZero |-> TRUE]
  ELSE [inside |-> /\ e22 * p1e1 - e12 * p1e2 >= 0
                   /\ e11 * p1e2 - e12 * p1e1 >= 0
                   /\ (e22 * p1e1 - e12 * p1e2) + (e11 * p1e2 - e12 * p1e1)
                        <= e11 * e22 - e12 * e12,
        divByZero |-> FALSE]

TriBasis(e1, e2, p1) ==
  TriTest(MagSq(e1), DotProd(e1, e2), MagSq(e2), DotProd(p1, e1), DotProd(p1, e2))

Point2DInTri(p, T) ==
  TriBasis(VecSub(T[2], T[1]), VecSub(T[3], T[1]), VecSub(p, T[1]))

\* the triangle loop of Point2DInFace() from segment i on; C is the vertex sum
\* of P, so point and triangle are all scaled by the vertex count; dz tells
\* whether an earlier triangle divided by zero
RECURSIVE FaceScan(_, _, _, _, _)
FaceScanOn(p, P, C, i, dz, r) ==
  IF r.inside THEN [inside |-> TRUE, divByZero |-> dz]
  ELSE FaceScan(p, P, C, i + 1, dz \/ r.divByZero)

FaceScan(p, P, C, i, dz) ==
  IF i > Len(P) THEN [inside |-> FALSE, divByZero |-> dz]
  ELSE FaceScanOn(p, P, C, i, dz,
         Point2DInTri(VecScale(Len(P), p),
                      <<VecScale(Len(P), P[i]),
                        VecScale(Len(P), P[NextVertex(i, Len(P))]), C>>))

Point2DInFace(p, P, C) ==
  IF Len(P) = 3 THEN Point2DInTri(p, P) ELSE FaceScan(p, P, C, 1, FALSE)

\* Area2DPolygon(): the sum of the triangle areas, as the fraction num / den
\* with den = 2 * numPolyVert
RECURSIVE AreaSum(_, _, _)
AreaSum(P, C, i) ==
  IF i > Len(P) THEN 0
  ELSE AbsVal(  P[i][1] * (Len(P) * P[NextVertex(i, Len(P))][2] - C[2])
              + P[NextVertex(i, Len(P))][1] * (C[2] - Len(P) * P[i][2])
              + C[1] * (P[i][2] - P[NextVertex(i, Len(P))][2]))
       + AreaSum(P, C, i + 1)

Area2DPolygon(P) ==
  [num |-> AreaSum(P, VertexAvgCentroid(P), 1), den |-> 2 * Len(P)]

ZeroArea == [num |-> 0, den |-> 1]

\* a / b for b # 0 dividing a (the faces of the model are chosen so that
\* every intersection point has integer coordinates, see ExactPair)
ExactQuot(a, b) == IF b > 0 THEN a \div b ELSE (-a) \div (-b)
Divides(b, a) == ExactQuot(a, b) * b = a
\* 0 <= num / det <= 1
InUnit(num, det) ==
  IF det > 0 THEN 0 <= num /\ num <= det ELSE det <= num /\ num <= 0

NoIntersection == [intersect |-> FALSE, duplicate |-> FALSE, pt |-> <<0, 0>>]

\* the tail of SegmentIntersection2D() once the point pt is known: V are the
\* four segment vertices, d their squared distances to pt, idMin the vertex
\* the loop of lines 1193-1202 ends on (the first of the closest ones; a point
\* on both segments is closer to some vertex than the longer segment is long,
\* so idMin is always assigned).  tol = [num, den] is the position tolerance
\* num / den; distRatio < tol is compared on the squares.
SegmentCollapse(V, pt, d, idMin, segMagSq, interior, tol) ==
  IF /\ d[idMin] * tol.den * tol.den < tol.num * tol.num * segMagSq
     /\ interior[idMin]
  THEN [intersect |-> FALSE, duplicate |-> TRUE, pt |-> V[idMin]]
  ELSE [intersect |-> TRUE, duplicate |-> FALSE, pt |-> pt]

SegmentClosest(V, pt, d, interior, tol) ==
  SegmentCollapse(V, pt, d,
    CHOOSE i \in 1..4 : /\ \A j \in 1..4 : d[i] <= d[j]
                        /\ \A j \in 1..(i - 1) : d[j] > d[i],
    IF (CHOOSE i \in 1..4 : /\ \A j \in 1..4 : d[i] <= d[j]
                            /\ \A j \in 1..(i - 1) : d[j] > d[i]) \in {1, 2}
    THEN MagSq(VecSub(V[2], V[1])) ELSE MagSq(VecSub(V[4], V[3])),
    interior, tol)

SegmentPoint(V, pt, interior, tol) ==
  SegmentClosest(V, pt, [i \in 1..4 |-> MagSq(VecSub(pt, V[i]))], interior, tol)

\* SegmentIntersection2D() of segment A1-B1 with segment A2-B2; numA / det
\* and numB / det are tA and tB
SegmentParams(A1, B1, A2, B2, det, numA, numB, interior, tol) ==
  IF det = 0 THEN NoIntersection
  ELSE IF ~InUnit(numA, det) \/ ~InUnit(numB, det) THEN NoIntersection
  ELSE SegmentPoint(<<A1, B1, A2, B2>>,
         <<A1[1] + ExactQuot((B1[1] - A1[1]) * numA, det),
           A1[2] + ExactQuot((B1[2] - A1[2]) * numA, det)>>,
         interior, tol)

SegmentIntersection2D(A1, B1, A2, B2, interior, tol) ==
  SegmentParams(A1, B1, A2, B2,
    -(B1[1] - A1[1]) * (B2[2] - A2[2]) + (B2[1] - A2[1]) * (B1[2] - A1[2]),
    (A1[1] - A2[1]) * (B2[2] - A2[2]) - (A1[2] - A2[2]) * (B2[1] - A2[1]),
    (A1[1] - A2[1]) * (B1[2] - A1[2]) - (A1[2] - A2[2]) * (B1[1] - A1[1]),
    interior, tol)

\* collapsing a segment as long as the tolerance too
KeptIdsInclusive(P, tol) ==
  {i \in 1..Len(P) :
     ~(MagSq(VecSub(P[i], P[IF i = 1 THEN Len(P) ELSE i - 1])) <= tol * tol)}

\* the kept vertices of CheckPolySegs(): segment i shorter than tol sets
\* newIDs[ib] = i, so a vertex keeps its id exactly when the segment that
\* ends on it is not shorter than tol
KeptIds(P, tol) ==
  {i \in 1..Len(P) :
     ~(MagSq(VecSub(P[i], P[IF i = 1 THEN Len(P) ELSE i - 1])) < tol * tol)}

RECURSIVE KeepSeq(_, _, _)
KeepSeq(P, K, i) ==
  IF i > Len(P) THEN <<>>
  ELSE (IF i \in K THEN <<P[i]>> ELSE <<>>) \o KeepSeq(P, K, i + 1)

\* CheckPolySegs(): xnew is written only when three or more vertices stay;
\* out is what the caller's polyX / polyY held before
CheckPolySegsOn(P, K, out) ==
  [err |-> "NO_FACE_GEOM_ERROR",
   numNewPoints |-> Cardinality(K),
   xnew |-> IF Cardinality(K) < 3 THEN out ELSE KeepSeq(P, K, 1)]

\* a collapse check that reports a polygon left with fewer than three
\* vertices as an error
CheckPolySegsStrict(P, tol, out) ==
  IF Cardinality(KeptIds(P, tol)) < 3
  THEN [CheckPolySegsOn(P, KeptIds(P, tol), out) EXCEPT !.err = "DEGENERATE_OVERLAP"]
  ELSE CheckPolySegsOn(P, KeptIds(P, tol), out)

CheckPolySegs(P, tol, out) == CheckPolySegsOn(P, KeptIds(P, tol), out)

\* PolyReorder(), first part (lines 1338-1421): the first j for which every
\* other point lies on one side of the line through points 1 and j and the
\* centroid lies strictly to its left; C is the vertex sum of P
HullProj(P, j, q) ==
  DotProd(q, <<-(P[j][2] - P[1][2]), P[j][1] - P[1][1]>>)

HullSegment(P, j, C) ==
  /\ \/ ~\E k \in 1..Len(P) : k \notin {1, j} /\ HullProj(P, j, VecSub(P[k], P[1])) < 0
     \/ ~\E k \in 1..Len(P) : k \notin {1, j} /\ HullProj(P, j, VecSub(P[k], P[1])) > 0
  /\ HullProj(P, j, VecSub(C, VecScale(Len(P), P[1]))) > 0

SwapIds(ids, a, b) == [ids EXCEPT ![a] = ids[b], ![b] = ids[a]]

FirstSegmentOn(P, J) ==
  IF J = {} THEN [i \in 1..Len(P) |-> i]
  ELSE SwapIds([i \in 1..Len(P) |-> i], 2, CHOOSE j \in J : \A k \in J : j <= k)

FirstSegment(P) ==
  FirstSegmentOn(P, {j \in 2..Len(P) : HullSegment(P, j, VertexAvgCentroid(P))})

\* cosTheta of the link vector to the point at position j against the
\* reference segment from position i to i + 1, as (a, m, r) with
\* cosTheta = a / sqrt(r * m); r * m = 0 makes it 0 / 0, a NaN
LinkCos(P, ids, i, j) ==
  [a |-> DotProd(VecSub(P[ids[j]], P[ids[i]]), VecSub(P[ids[i + 1]], P[ids[i]])),
   m |-> MagSq(VecSub(P[ids[j]], P[ids[i]])),
   r |-> MagSq(VecSub(P[ids[i + 1]], P[ids[i]]))]

\* cosTheta > -1., the starting value of cosThetaMax
CosAboveStart(c) ==
  /\ c.r # 0 /\ c.m # 0
  /\ c.a >= 0 \/ c.a * c.a < c.r * c.m

\* cosTheta of c > cosTheta of d, for the same reference segment
CosGreater(c, d) ==
  IF c.a >= 0
  THEN d.a < 0 \/ c.a * c.a * d.m > d.a * d.a * c.m
  ELSE d.a < 0 /\ c.a * c.a * d.m < d.a * d.a * c.m

\* taking the link vector with the smallest cosTheta instead of the largest
LinkChoiceSmallest(P, ids, i) ==
  {j \in (i + 2)..Len(P) :
     \A k \in (i + 2)..Len(P) :
       /\ ~CosGreater(LinkCos(P, ids, i, j), LinkCos(P, ids, i, k))
       /\ k < j => CosGreater(LinkCos(P, ids, i, k), LinkCos(P, ids, i, j))}

\* the positions the loop of lines 1446-1461 can leave in jID: the first of
\* the positions with the largest cosTheta above -1; empty when no cosTheta
\* compares greater than -1, and jID is then read without ever being written
LinkChoice(P, ids, i) ==
  {j \in (i + 2)..Len(P) :
     /\ CosAboveStart(LinkCos(P, ids, i, j))
     /\ \A k \in (i + 2)..Len(P) :
          CosAboveStart(LinkCos(P, ids, i, k)) =>
            /\ ~CosGreater(LinkCos(P, ids, i, k), LinkCos(P, ids, i, j))
            /\ k < j => CosGreater(LinkCos(P, ids, i, j), LinkCos(P, ids, i, k))}

\* lines 1429-1469; unset tells that some pass read jID unwritten (the ids
\* are then left as they are, one of the things the read can amount to)
RECURSIVE LinkLoop(_, _, _, _)
LinkLoopOn(P, ids, i, unset, J) ==
  IF J = {} THEN LinkLoop(P, ids, i + 1, TRUE)
  ELSE LinkLoop(P, SwapIds(ids, i + 2, CHOOSE j \in J : TRUE), i + 1, unset)

LinkLoop(P, ids, i, unset) ==
  IF i > Len(P) - 3 THEN [ids |-> ids, unset |-> unset]
  ELSE LinkLoopOn(P, ids, i, unset, LinkChoice(P, ids, i))

ReorderBy(P, r) ==
  [ok |-> TRUE, x |-> [i \in 1..Len(P) |-> P[r.ids[i]]], unset |-> r.unset]

PolyReorder(P) ==
  IF Len(P) < 3 THEN [ok |-> FALSE, x |-> P, unset |-> FALSE]
  ELSE ReorderBy(P, LinkLoop(P, FirstSegment(P), 1, FALSE))

\* Intersection2DPolygon().  The record holds the return value and the
\* output arguments (poly for polyX / polyY, <<>> while unwritten; areaSet
\* tells whether area was assigned) and, for the properties, what happened
\* on the way: divByZero (a Point2DInTri() call divided by zero), undefined
\* (jID read unwritten in PolyReorder(), or more points handed to
\* CheckPolySegs() than its newIDs[8] holds), identified (the points collected
\* by lines 773-790, -1 if not reached) and numFinalVert (-1 if not reached).
MaxOverlapNodes == 8

FaceResult(err, n, poly, area, areaSet, dz, undef, identified, final) ==
  [err |-> err, numPolyVert |-> n, poly |-> poly, area |-> area,
   areaSet |-> areaSet, divByZero |-> dz, undefined |-> undef,
   identified |-> identified, numFinalVert |-> final]

InteriorFlags(P, Q) ==
  [i \in 1..Len(P) |-> Point2DInFace(P[i], Q, VertexAvgCentroid(Q))]

AnyDivByZero(f) == \E i \in DOMAIN f : f[i].divByZero

\* lines 850-889
IntersectFinish(dz, n, undef, s) ==
  IF s.err # "NO_FACE_GEOM_ERROR"
  THEN FaceResult(s.err, n, s.xnew, ZeroArea, FALSE, dz, undef, n, s.numNewPoints)
  ELSE IF s.numNewPoints < 3
  THEN FaceResult("NO_FACE_GEOM_ERROR", n, s.xnew, ZeroArea, TRUE, dz, undef,
                  n, s.numNewPoints)
  ELSE FaceResult("NO_FACE_GEOM_ERROR", s.numNewPoints, s.xnew,
                  Area2DPolygon(s.xnew), TRUE, dz, undef, n, s.numNewPoints)

IntersectCheck(lenTol, dz, n, r) ==
  IntersectFinish(dz, n, r.unset \/ n > MaxOverlapNodes,
                  CheckPolySegs(r.x, lenTol, <<>>))

IntersectOrder(lenTol, dz, T) ==
  IF Len(T) > 2 THEN IntersectCheck(lenTol, dz, Len(T), PolyReorder(T))
  ELSE FaceResult("NO_FACE_GEOM_ERROR", Len(T), <<>>, ZeroArea, TRUE, dz, FALSE,
                  Len(T), -1)

\* lines 773-848: X holds the segment-segment intersection points
IntersectCollect(A, B, lenTol, dz, inA, inB, X) ==
  IF X = <<>> /\ (\A i \in DOMAIN inA : ~inA[i]) /\ (\A j \in DOMAIN inB : ~inB[j])
  THEN FaceResult("NO_FACE_GEOM_ERROR", 0, <<>>, ZeroArea, TRUE, dz, FALSE, 0, -1)
  ELSE IntersectOrder(lenTol, dz,
         X \o KeepSeq(A, {i \in DOMAIN inA : inA[i]}, 1)
           \o KeepSeq(B, {j \in DOMAIN inB : inB[j]}, 1))

\* lines 728-771: the pairs of segments in the order of the two loops (with
\* four vertices a face interId stays below max_intersections)
SegmentPair(A, B, inA, inB, posTol, ia, jb) ==
  SegmentIntersection2D(A[ia], A[NextVertex(ia, Len(A))],
                        B[jb], B[NextVertex(jb, Len(B))],
                        <<inA[ia], inA[NextVertex(ia, Len(A))],
                          inB[jb], inB[NextVertex(jb, Len(B))]>>, posTol)

PointIf(r) == IF r.intersect THEN <<r.pt>> ELSE <<>>

RECURSIVE SegmentPoints(_, _, _, _, _, _)
SegmentPoints(A, B, inA, inB, posTol, k) ==
  IF k >= Len(A) * Len(B) THEN <<>>
  ELSE PointIf(SegmentPair(A, B, inA, inB, posTol,
                           (k \div Len(B)) + 1, (k % Len(B)) + 1))
       \o SegmentPoints(A, B, inA, inB, posTol, k + 1)

\* lines 677-703 drop the interior mark of a vertex of B that coincides with
\* an interior vertex of A
IntersectSegments(A, B, posTol, lenTol, dz, inA, inB) ==
  IntersectCollect(A, B, lenTol, dz, inA, inB,
                   SegmentPoints(A, B, inA, inB, posTol, 0))

IntersectInteriorB(A, B, posTol, lenTol, va, vb) ==
  IF \A j \in DOMAIN vb : vb[j].inside
  THEN FaceResult("NO_FACE_GEOM_ERROR", Len(B), B, Area2DPolygon(B), TRUE,
                  AnyDivByZero(va) \/ AnyDivByZero(vb), FALSE, -1, -1)
  ELSE IntersectSegments(A, B, posTol, lenTol,
         AnyDivByZero(va) \/ AnyDivByZero(vb),
         [i \in DOMAIN va |-> va[i].inside],
         [j \in DOMAIN vb |->
            /\ vb[j].inside
            /\ ~\E i \in DOMAIN va : va[i].inside /\ A[i] = B[j]])

IntersectInteriorA(A, B, posTol, lenTol, va) ==
  IF \A i \in DOMAIN va : va[i].inside
  THEN FaceResult("NO_FACE_GEOM_ERROR", Len(A), A, Area2DPolygon(A), TRUE,
                  AnyDivByZero(va), FALSE, -1, -1)
  ELSE IntersectInteriorB(A, B, posTol, lenTol, va, InteriorFlags(B, A))

Intersection2DPolygon(A, B, posTol, lenTol, orientCheck) ==
  IF Len(A) < 3 \/ Len(B) < 3
  THEN FaceResult("INVALID_FACE_INPUT", 0, <<>>, ZeroArea, TRUE, FALSE, FALSE, -1, -1)
  ELSE IF orientCheck /\ (~CheckPolyOrientation(A) \/ ~CheckPolyOrientation(B))
  THEN FaceResult("FACE_ORIENTATION", 0, <<>>, ZeroArea, FALSE, FALSE, FALSE, -1, -1)
  ELSE IntersectInteriorA(A, B, posTol, lenTol, InteriorFlags(A, B))

\* PolyAreaCentroid() for a face in the plane z = 0 (dim = 3): the centroid is
\* the fraction num / den; den = 0 is the code's 0 / 0.  a(i) below is
\* 2 * numVert times the area of triangle i, and 3 * numVert times the
\* triangle's own centroid is numVert * (P[i] + P[i+1]) + C.
TriArea(P, C, i) ==
  AbsVal(CrossZ(VecSub(P[NextVertex(i, Len(P))], P[i]),
                VecSub(C, VecScale(Len(P), P[i]))))

AreaWeighted(P, C, i) ==
  <<TriArea(P, C, i) * (Len(P) * (P[i][1] + P[NextVertex(i, Len(P))][1]) + C[1]),
    TriArea(P, C, i) * (Len(P) * (P[i][2] + P[NextVertex(i, Len(P))][2]) + C[2]),
    TriArea(P, C, i)>>

TripleAdd(s, t) == <<s[1] + t[1], s[2] + t[2], s[3] + t[3]>>

RECURSIVE SumTriples(_, _, _)
SumTriples(P, C, i) ==
  IF i > Len(P) THEN <<0, 0, 0>>
  ELSE TripleAdd(AreaWeighted(P, C, i), SumTriples(P, C, i + 1))

CentroidOf(n, s) ==
  [ok |-> TRUE, num |-> <<s[1], s[2]>>, den |-> 3 * n * s[3]]

PolyAreaCentroid(P) ==
  IF Len(P) = 0 THEN [ok |-> FALSE, num |-> <<0, 0>>, den |-> 1]
  ELSE CentroidOf(Len(P), SumTriples(P, VertexAvgCentroid(P), 1))

\* a degenerate face: three or more vertices of which two coincide (a
\* zero-length edge among them) or all of which lie on one line
Collinear(P) ==
  \A i, j \in 1..Len(P) : CrossZ(VecSub(P[i], P[1]), VecSub(P[j], P[1])) = 0
Duplicated(P) == \E i, j \in 1..Len(P) : i # j /\ P[i] = P[j]
DegenerateFace(P) == Len(P) >= 3 /\ (Collinear(P) \/ Duplicated(P))

\* ---- the geometry routines applied to faces drawn from a bounded family ----
MaxShift == 2
MaxLenTol == 3

Rect(p, w, h) ==
  <<p, <<p[1] + w, p[2]>>, <<p[1] + w, p[2] + h>>, <<p[1], p[2] + h>>>>
RightTri(p, w) == <<p, <<p[1] + w, p[2]>>, <<p[1], p[2] + w>>>>
Diamond(p, w) ==
  <<<<p[1] + w, p[2]>>, <<p[1] + 2 * w, p[2] + w>>,
    <<p[1] + w, p[2] + 2 * w>>, <<p[1], p[2] + w>>>>
Reversed(P) == [i \in 1..Len(P) |-> P[Len(P) + 1 - i]]
Shifted(P, d) == [i \in 1..Len(P) |-> VecAdd(P[i], d)]

\* convex faces in counter-clockwise order
ConvexFaces ==
  {Rect(<<0, 0>>, 4, 4), Rect(<<1, 1>>, 2, 2), Rect(<<1, 0>>, 4, 3),
   Rect(<<1, 1>>, 4, 4),
   RightTri(<<0, 0>>, 4),
   Diamond(<<0, 0>>, 2), <<<<0, 0>>, <<2, 0>>, <<-1, 2>>, <<-4, 1>>>>}
\* faces without area: collinear vertices, a repeated vertex
DegenerateFaces ==
  {<<<<0, 2>>, <<2, 2>>, <<4, 2>>>>, <<<<0, 0>>, <<4, 0>>, <<4, 0>>, <<0, 4>>>>,
   <<<<2, 2>>, <<2, 2>>, <<2, 2>>>>}
\* faces with fewer than three vertices
ShortFaces == {<< >>, <<<<0, 0>>>>, <<<<0, 0>>, <<4, 0>>>>}
FacesA ==
  ConvexFaces \cup DegenerateFaces \cup ShortFaces
    \cup {Reversed(Rect(<<0, 0>>, 4, 4))}
FacesB ==
  {Shifted(F, <<2 * dx, 2 * dy>>) :
     F \in {Rect(<<0, 0>>, 4, 4), Rect(<<-2, -2>>, 8, 8), RightTri(<<0, 0>>, 4),
            Diamond(<<0, 0>>, 2), <<<<0, 2>>, <<2, 2>>, <<4, 2>>>>},
     dx \in 0..MaxShift, dy \in 0..MaxShift}
\* position tolerances are positive ratios: one below every distance the
\* faces can produce other than zero, and one half
PosTols == {[num |-> 1, den |-> 1000], [num |-> 1, den |-> 2]}

\* every point in which a segment of A meets a segment of B has integer
\* coordinates
ExactSegments(A1, B1, A2, B2, det, numA, numB) ==
  (det # 0 /\ InUnit(numA, det) /\ InUnit(numB, det)) =>
    /\ Divides(det, (B1[1] - A1[1]) * numA)
    /\ Divides(det, (B1[2] - A1[2]) * numA)

ExactPair(A, B) ==
  \A ia \in 1..Len(A), jb \in 1..Len(B) :
    ExactSegments(A[ia], A[NextVertex(ia, Len(A))], B[jb], B[NextVertex(jb, Len(B))],
      -(A[NextVertex(ia, Len(A))][1] - A[ia][1]) * (B[NextVertex(jb, Len(B))][2] - B[jb][2])
        + (B[NextVertex(jb, Len(B))][1] - B[jb][1]) * (A[NextVertex(ia, Len(A))][2] - A[ia][2]),
      (A[ia][1] - B[jb][1]) * (B[NextVertex(jb, Len(B))][2] - B[jb][2])
        - (A[ia][2] - B[jb][2]) * (B[NextVertex(jb, Len(B))][1] - B[jb][1]),
      (A[ia][1] - B[jb][1]) * (A[NextVertex(ia, Len(A))][2] - A[ia][2])
        - (A[ia][2] - B[jb][2]) * (A[NextVertex(ia, Len(A))][1] - A[ia][1]))

GeomArgs ==
  {a \in [A : FacesA, B : FacesB, posTol : PosTols, lenTol : 0..MaxLenTol,
          orientCheck : BOOLEAN] : ExactPair(a.A, a.B)}

InitGeom ==
  /\ meshes = << >>
  /\ cs = << >>
  /\ req \in GeomArgs
  /\ ret = [op |-> "none"]
  /\ crashed = FALSE

\* what a call that read an unwritten index or wrote past an array can hand
\* back: any error code, with or without an area
IntersectOutcomes(r) ==
  IF r.undefined
  THEN {[r EXCEPT !.err = e, !.area = a] :
          e \in FaceGeomErrors, a \in {ZeroArea, r.area}}
  ELSE {r}

Intersect ==
  /\ ret.op = "none"
  /\ \E r \in IntersectOutcomes(Intersection2DPolygon(req.A, req.B, req.posTol,
                                                     req.lenTol, req.orientCheck)) :
       ret' = [op |-> "Intersection2DPolygon", res |-> r]
  /\ UNCHANGED <<meshes, cs, req, crashed>>

CollapseSegs ==
  /\ ret.op = "none"
  /\ Len(req.A) >= 3
  /\ ret' = [op |-> "CheckPolySegs", res |-> CheckPolySegs(req.A, req.lenTol, << >>)]
  /\ UNCHANGED <<meshes, cs, req, crashed>>

AreaCentroid ==
  /\ ret.op = "none"
  /\ ret' = [op |-> "PolyAreaCentroid", res |-> PolyAreaCentroid(req.A)]
  /\ UNCHANGED <<meshes, cs, req, crashed>>

\* the routine called on the two faces and again with the faces exchanged
IntersectBothWays ==
  /\ ret.op = "none"
  /\ ExactPair(req.B, req.A)
  /\ \E r \in IntersectOutcomes(Intersection2DPolygon(req.A, req.B, req.posTol,
                                                     req.lenTol, req.orientCheck)),
        q \in IntersectOutcomes(Intersection2DPolygon(req.B, req.A, req.posTol,
                                                     req.lenTol, req.orientCheck)) :
       ret' = [op |-> "Intersection2DPolygon twice", res |-> r, swapped |-> q]
  /\ UNCHANGED <<meshes, cs, req, crashed>>

NextGeom == Intersect \/ CollapseSegs \/ AreaCentroid \/ IntersectBothWays
SpecGeom == InitGeom /\ [][NextGeom]_vars

\* ---- PolyReorder() applied once and twice to points in convex position ----
MaxPermuted == 5

\* every point is a corner of the hull: along the sequence every turn is a
\* strict left turn and the sequence winds round once
LeftTurn(p, q, r) == CrossZ(VecSub(q, p), VecSub(r, q)) > 0
ConvexCCW(P) ==
  /\ Len(P) >= 3
  /\ \A i \in 1..Len(P) :
       \A k \in 1..Len(P) :
         k \notin {i, NextVertex(i, Len(P))} =>
           CrossZ(VecSub(P[NextVertex(i, Len(P))], P[i]), VecSub(P[k], P[i])) > 0

ConvexPolygons ==
  {P \in {RightTri(<<0, 0>>, 4), Rect(<<0, 0>>, 4, 2), Diamond(<<0, 0>>, 2),
          <<<<0, 0>>, <<2, 0>>, <<-1, 2>>, <<-4, 1>>>>,
          <<<<0, 0>>, <<4, 0>>, <<6, 3>>, <<3, 6>>, <<-1, 3>>>>,
          <<<<1, 0>>, <<3, 0>>, <<4, 2>>, <<3, 4>>, <<1, 4>>, <<0, 2>>>>,
          <<<<1, 0>>, <<3, 0>>, <<4, 1>>, <<4, 3>>, <<3, 4>>, <<1, 4>>, <<0, 3>>>>,
          <<<<1, 0>>, <<3, 0>>, <<4, 1>>, <<4, 3>>, <<3, 4>>, <<1, 4>>, <<0, 3>>,
            <<0, 1>>>>} : ConvexCCW(P)}

Rotated(P, k) == [i \in 1..Len(P) |-> P[((i + k - 1) % Len(P)) + 1]]
Swapped(P, a, b) == [P EXCEPT ![a] = P[b], ![b] = P[a]]
\* the orders in which the corners are handed in: every order of a polygon
\* of up to MaxPermuted corners; of a larger one its rotations, forwards and
\* backwards, each also with any two entries exchanged
Orders(P) ==
  IF Len(P) <= MaxPermuted
  THEN {[i \in 1..Len(P) |-> P[f[i]]] :
          f \in {g \in [1..Len(P) -> 1..Len(P)] :
                   \A a, b \in 1..Len(P) : g[a] = g[b] => a = b}}
  ELSE {Swapped(Q, a, b) :
          Q \in {Rotated(P, k) : k \in 0..(Len(P) - 1)}
                  \cup {Rotated(Reversed(P), k) : k \in 0..(Len(P) - 1)},
          a \in 1..Len(P), b \in 1..Len(P)}

ReorderArgs == UNION {{[x |-> Q] : Q \in Orders(P)} : P \in ConvexPolygons}

InitReorder ==
  /\ meshes = << >>
  /\ cs = << >>
  /\ req \in ReorderArgs
  /\ ret = [op |-> "none"]
  /\ crashed = FALSE

\* PolyReorder(x, y, numPoints) on the caller's arrays
Reorder ==
  /\ ret.op = "none"
  /\ ret' = [op |-> "PolyReorder", calls |-> 1, before |-> req.x,
             res |-> PolyReorder(req.x)]
  /\ UNCHANGED <<meshes, cs, req, crashed>>

\* a second call on the arrays the first one left
ReorderAgain ==
  /\ ret.op = "PolyReorder" /\ ret.calls = 1 /\ ~ret.res.unset
  /\ ret' = [op |-> "PolyReorder", calls |-> 2, before |-> ret.res.x,
             res |-> PolyReorder(ret.res.x)]
  /\ UNCHANGED <<meshes, cs, req, crashed>>

NextReorder == Reorder \/ ReorderAgain
SpecReorder == InitReorder /\ [][NextReorder]_vars
\* ======== end of geom/GeomUtilities.cpp ========


\* ======== mesh/MethodCouplingData.cpp ========
\* SurfaceContactElem: numFaceVert, numWts and the array mortarWts, held as
\* a sequence whose entry i + 1 is mortarWts[i]; isNull tells a nullptr.
\* allocated records that allocateMortarWts() has run.
MaxFaceVert == 4
\* the content of an array fresh from new real[]
Indeterminate == -1

RECURSIVE ZeroFirst(_, _)
\* for (int i=0; i<n; ++i) mortarWts[i] = 0.
ZeroFirst(w, n) ==
  IF n = 0 THEN w ELSE ZeroFirst([w EXCEPT ![n] = 0], n - 1)

\* a loop that stops one entry short
initializeMortarWtsShort(e) ==
  [e EXCEPT !.mortarWts = ZeroFirst(e.mortarWts, e.numWts - 1)]

initializeMortarWts(e) ==
  [e EXCEPT !.mortarWts = ZeroFirst(e.mortarWts, e.numWts)]

\* both branches of the nullptr test end in a new array of numWts entries
allocateMortarWts(e) ==
  initializeMortarWts(
    [e EXCEPT !.numWts = 2 * e.numFaceVert * e.numFaceVert,
              !.isNull = FALSE,
              !.allocated = TRUE,
              !.mortarWts = [i \in 1..(2 * e.numFaceVert * e.numFaceVert) |->
                               Indeterminate]])

\* mortarWts[ id ]: the index, whether it lies in the array, and the value
\* (outside the array the read is undefined; the value stands as Indeterminate)
ReadWt(e, id) ==
  [id |-> id,
   inRange |-> ~e.isNull /\ id >= 0 /\ id < Len(e.mortarWts),
   wt |-> IF ~e.isNull /\ id >= 0 /\ id < Len(e.mortarWts)
          THEN e.mortarWts[id + 1] ELSE Indeterminate]

getMasterSlaveWt(e, a, b) ==
  ReadWt(e, e.numFaceVert * e.numFaceVert + e.numFaceVert * a + b)

\* reading the master-slave weights untransposed
getSlaveMasterWtAsStored(e, a, b) ==
  ReadWt(e, e.numFaceVert * e.numFaceVert + e.numFaceVert * a + b)

getSlaveMasterWt(e, a, b) ==
  ReadWt(e, e.numFaceVert * e.numFaceVert + e.numFaceVert * b + a)

getSlaveSlaveWt(e, a, b) == ReadWt(e, e.numFaceVert * a + b)

\* the element before the call: no weights yet, or the weights of an earlier
\* allocation with what was accumulated in them
ElemArgs == [numFaceVert : 2..MaxFaceVert, prior : {"nullptr", "ones", "counted"}]

PriorWts(V, prior) ==
  IF prior = "nullptr" THEN << >>
  ELSE [i \in 1..(2 * V * V) |-> IF prior = "ones" THEN 1 ELSE i]

InitElem ==
  /\ meshes = << >>
  /\ req \in ElemArgs
  /\ cs = [numFaceVert |-> req.numFaceVert,
           numWts |-> Len(PriorWts(req.numFaceVert, req.prior)),
           isNull |-> req.prior = "nullptr",
           allocated |-> FALSE,
           mortarWts |-> PriorWts(req.numFaceVert, req.prior)]
  /\ ret = [op |-> "none"]
  /\ crashed = FALSE

AllocateMortarWts ==
  /\ cs' = allocateMortarWts(cs)
  /\ ret' = [op |-> "allocateMortarWts"]
  /\ UNCHANGED <<meshes, req, crashed>>

GetMasterSlaveWt ==
  /\ ~cs.isNull
  /\ \E a, b \in 0..(MaxFaceVert - 1) :
       ret' = [op |-> "getMasterSlaveWt", a |-> a, b |-> b,
               read |-> getMasterSlaveWt(cs, a, b)]
  /\ UNCHANGED <<meshes, cs, req, crashed>>

GetSlaveMasterWt ==
  /\ ~cs.isNull
  /\ \E a, b \in 0..(MaxFaceVert - 1) :
       ret' = [op |-> "getSlaveMasterWt", a |-> a, b |-> b,
               read |-> getSlaveMasterWt(cs, a, b)]
  /\ UNCHANGED <<meshes, cs, req, crashed>>

GetSlaveSlaveWt ==
  /\ ~cs.isNull
  /\ \E a, b \in 0..(MaxFaceVert - 1) :
       ret' = [op |-> "getSlaveSlaveWt", a |-> a, b |-> b,
               read |-> getSlaveSlaveWt(cs, a, b)]
  /\ UNCHANGED <<meshes, cs, req, crashed>>

NextElem ==
  AllocateMortarWts \/ GetMasterSlaveWt \/ GetSlaveMasterWt \/ GetSlaveSlaveWt
SpecElem == InitElem /\ [][NextElem]_vars

\* MortarData::assembleJacobian(): the positions of the sparse matrix m_smat
\* that receive a contribution. A contact element holds the node ids of its
\* two faces as the connectivity gives them (master: faceId1, slave: faceId2).
\* isValidMethod() admits the mortar methods in three dimensions only.
MortarDim == 3
MaxStart == 1
MaxTotalNodes == 5
MaxElems == 2

getJacobianIndex(e, block, a, b) ==
  IF block = "JguBlock" THEN a + e.numFaceVert * b
  ELSE IF block = "JrpBlock" THEN a + e.dim * e.numFaceVert * b
  ELSE -1

getJacobianDimOffset(e, block) ==
  IF block = "JguBlock" THEN e.numFaceVert * e.numFaceVert
  ELSE IF block = "JrpBlock" THEN e.numFaceVert
  ELSE -1

\* an offset that leaves out the dimension
presOffsetNodes(e, numNodes) == numNodes

\* int presOffset = elem.dim * numNodes
presOffset(e, numNodes) == e.dim * numNodes

\* m_smat->Add( i, j, elem.blockJ( blockI, blockJ ).Data()[ localId ] )
SmatAdd(i, j, blockI, blockJ, localId) ==
  [row |-> i, col |-> j, blockI |-> blockI, blockJ |-> blockJ,
   localId |-> localId]

\* the three Add() calls of one block (assume 3D for now), the displacement
\* index on the row
JrpAdds(e, i, j, blockI, localId, dimOffset) ==
  {SmatAdd(i + k, j, blockI, "LAGRANGE_MULTIPLIER", localId + k * dimOffset) :
     k \in 0..2}

\* the three Add() calls of one block, the displacement index on the column
JguAdds(e, i, j, blockJ, localId, dimOffset) ==
  {SmatAdd(i, j + k, "LAGRANGE_MULTIPLIER", blockJ, localId + k * dimOffset) :
     k \in 0..2}

\* the body of the loops over a and b
JacobianAdds(e, a, b, pres) ==
  JrpAdds(e, e.dim * e.masterNodes[a + 1], pres + e.slaveNodes[b + 1],
          "MASTER", getJacobianIndex(e, "JrpBlock", a, b),
          getJacobianDimOffset(e, "JrpBlock"))
  \cup
  JrpAdds(e, e.dim * e.slaveNodes[a + 1], pres + e.slaveNodes[b + 1],
          "SLAVE", getJacobianIndex(e, "JrpBlock", a, b),
          getJacobianDimOffset(e, "JrpBlock"))
  \cup
  JguAdds(e, pres + e.slaveNodes[b + 1], e.dim * e.masterNodes[a + 1],
          "MASTER", getJacobianIndex(e, "JguBlock", b, a),
          getJacobianDimOffset(e, "JguBlock"))
  \cup
  JguAdds(e, pres + e.slaveNodes[b + 1], e.dim * e.slaveNodes[a + 1],
          "SLAVE", getJacobianIndex(e, "JguBlock", b, a),
          getJacobianDimOffset(e, "JguBlock"))

assembleJacobian(e, numTotalNodes) ==
  UNION {JacobianAdds(e, a, b, presOffset(e, numTotalNodes)) :
           a \in 0..(e.numFaceVert - 1), b \in 0..(e.numFaceVert - 1)}

\* the positions of m_smat that hold an entry after the Add() calls
Positions(adds) == {<<x.row, x.col>> : x \in adds}

\* the node ids of a face of n vertices that starts at node s; the slave face
\* runs the opposite way round
FaceNodes(s, n, opposite) ==
  [a \in 1..n |-> IF opposite THEN s + n - a ELSE s + a - 1]

\* faces of a surface mesh in three dimensions: triangles and up
JacElems ==
  {[dim |-> MortarDim, numFaceVert |-> n,
    masterNodes |-> FaceNodes(s1, n, FALSE),
    slaveNodes |-> FaceNodes(s2, n, TRUE)] :
     n \in 3..MaxFaceVert, s1 \in 0..MaxStart, s2 \in 0..MaxStart}

Range(f) == {f[x] : x \in DOMAIN f}

\* allocateMethodData() has set m_numTotalNodes from the node count of mesh 1;
\* m_smat holds no entry yet
InitJac ==
  /\ meshes = << >>
  /\ req \in [numTotalNodes : 1..MaxTotalNodes]
  /\ cs = [numTotalNodes |-> req.numTotalNodes, smat |-> {},
           numElems |-> 0, slaveIds |-> {}, nodeIds |-> {}]
  /\ ret = [op |-> "none"]
  /\ crashed = FALSE

AssembleJacobian ==
  /\ cs.numElems < MaxElems
  /\ \E e \in JacElems :
       /\ cs' = [cs EXCEPT
                   !.smat = @ \cup Positions(assembleJacobian(e, cs.numTotalNodes)),
                   !.numElems = @ + 1,
                   !.slaveIds = @ \cup Range(e.slaveNodes),
                   !.nodeIds = @ \cup Range(e.masterNodes)
                                 \cup Range(e.slaveNodes)]
       /\ ret' = [op |-> "assembleJacobian", elem |-> e]
  /\ UNCHANGED <<meshes, req, crashed>>

NextJac == AssembleJacobian
SpecJac == InitJac /\ [][NextJac]_vars

\* MethodData: m_blockJSpaces, the active block spaces in the order given;
\* m_blockJElemIds, one list of element ids per block space; m_blockJ, one
\* list of element matrices per pair of block spaces. A matrix is held as the
\* pair of element ids it couples.
BlockSpaces == {"MASTER", "SLAVE", "LAGRANGE_MULTIPLIER"}
NumBlockSpaces == 3
MaxStores == 2
MaxElemId == 1
MaxReserve == 2

\* MethodData::MethodData(): every list empty, no active space
MethodData ==
  [blockJSpaces |-> << >>,
   blockJElemIds |-> [s \in BlockSpaces |-> << >>],
   blockJ |-> [p \in BlockSpaces \X BlockSpaces |-> << >>],
   capacity |-> 0]

\* fill() empties every list; reserve() changes no length
reserveBlockJ(d, blockJSpaces, nPairs) ==
  [blockJSpaces |-> blockJSpaces,
   blockJElemIds |-> [s \in BlockSpaces |-> << >>],
   blockJ |-> [p \in BlockSpaces \X BlockSpaces |-> << >>],
   capacity |-> nPairs \div 2]

getNSpaces(d) == Len(d.blockJSpaces)

RECURSIVE StoreRow(_, _, _, _)
\* for (j ...) m_blockJ(blockIdxI, blockIdxJ).push_back(blockJ(i, j)), from j on
StoreRow(d, blockJ, i, j) ==
  IF j > getNSpaces(d) THEN d
  ELSE StoreRow(
         [d EXCEPT !.blockJ[<<d.blockJSpaces[i], d.blockJSpaces[j]>>] =
                     Append(@, blockJ[<<i, j>>])],
         blockJ, i, j + 1)

RECURSIVE StoreDiagonal(_, _, _, _)
\* a store that keeps the diagonal blocks only
StoreDiagonal(d, blockJElemIds, blockJ, i) ==
  IF i > getNSpaces(d) THEN d
  ELSE StoreDiagonal(
         [d EXCEPT !.blockJElemIds[d.blockJSpaces[i]] =
                     Append(@, blockJElemIds[i]),
                   !.blockJ[<<d.blockJSpaces[i], d.blockJSpaces[i]>>] =
                     Append(@, blockJ[<<i, i>>])],
         blockJElemIds, blockJ, i + 1)

RECURSIVE StoreFrom(_, _, _, _)
\* the loop over i of storeElemBlockJ(), from i on
StoreFrom(d, blockJElemIds, blockJ, i) ==
  IF i > getNSpaces(d) THEN d
  ELSE StoreFrom(
         StoreRow([d EXCEPT !.blockJElemIds[d.blockJSpaces[i]] =
                              Append(@, blockJElemIds[i])],
                  blockJ, i, 1),
         blockJElemIds, blockJ, i + 1)

storeElemBlockJDiagonal(d, blockJElemIds, blockJ) ==
  StoreDiagonal(d, blockJElemIds, blockJ, 1)

storeElemBlockJ(d, blockJElemIds, blockJ) ==
  StoreFrom(d, blockJElemIds, blockJ, 1)

\* the arrays of block spaces a caller can hand over
SpaceLists == UNION {[1..n -> BlockSpaces] : n \in 0..NumBlockSpaces}

\* the arguments of a store for the element pair that starts at id base: one
\* element id per active space and one matrix per pair of them, of the sizes
\* the SLIC_ASSERTs ask for
ElemIdsOf(n, base) == [i \in 1..n |-> base + i - 1]
BlocksOf(n, base) ==
  [p \in (1..n) \X (1..n) |-> <<base + p[1] - 1, base + p[2] - 1>>]

InitBlockJ ==
  /\ meshes = << >>
  /\ req = [op |-> "MethodData"]
  /\ cs = [data |-> MethodData, reserved |-> FALSE, stored |-> 0]
  /\ ret = [op |-> "none"]
  /\ crashed = FALSE

ReserveBlockJ ==
  /\ \E spaces \in SpaceLists, nPairs \in 0..MaxReserve :
       /\ cs' = [data |-> reserveBlockJ(cs.data, spaces, nPairs),
                 reserved |-> TRUE, stored |-> 0]
       /\ ret' = [op |-> "reserveBlockJ", discarded |-> cs.stored]
  /\ UNCHANGED <<meshes, req, crashed>>

StoreElemBlockJ ==
  /\ cs.stored < MaxStores
  /\ \E base \in 0..MaxElemId :
       /\ cs' = [cs EXCEPT
                   !.data = storeElemBlockJ(
                              cs.data,
                              ElemIdsOf(getNSpaces(cs.data), base),
                              BlocksOf(getNSpaces(cs.data), base)),
                   !.stored = @ + 1]
       /\ ret' = [op |-> "storeElemBlockJ", base |-> base]
  /\ UNCHANGED <<meshes, req, crashed>>

NextBlockJ == ReserveBlockJ \/ StoreElemBlockJ
SpecBlockJ == InitBlockJ /\ [][NextBlockJ]_vars
\* ======== end of mesh/MethodCouplingData.cpp ========

Next ==
  \/ RegisterMesh
  \/ InitCS
  \/ PerformBinning
  \/ PerformBinningNull
  \/ Apply
  \/ ApplyNull

Spec == Init /\ [][Next]_vars

(***************************************************************************)
(* Properties                                                              *)
(***************************************************************************)
NoPlanes(c) == c.m_contact_plane2d = 0 /\ c.m_contact_plane3d = 0

\* one of the five error fields the validation writes holds an error
SettingsErrorTagged(c) ==
  \/ c.errs.cs_mode_error # "NO_MODE_ERROR"
  \/ c.errs.cs_case_error # "NO_CASE_ERROR"
  \/ c.errs.cs_method_error # "NO_METHOD_ERROR"
  \/ c.errs.cs_model_error # "NO_MODEL_ERROR"
  \/ c.errs.cs_enforcement_error # "NO_ENFORCEMENT_ERROR"

ErrorTagged(c) ==
  \/ SettingsErrorTagged(c)
  \/ c.errs.cs_enforcement_data_error # "NO_ENFORCEMENT_DATA_ERROR"

\* C1: with method SINGLE_MORTAR, mesh 1 of 3-vertex faces and mesh 2 of
\* 4-vertex faces, both registered and non-empty (in one memory space, with
\* nodal response and multiplier data), init() returns false, the method
\* error is DIFFERENT_FACE_TYPES and no candidate pair exists.
C1_TetHexMethodError ==
  ( /\ ret.op = "init"
    /\ req.method = "SINGLE_MORTAR" /\ req.mesh_id2 = 2
    /\ req.case = "NO_CASE" /\ req.enforcement = "LAGRANGE_MULTIPLIER"
    /\ meshes[1].registered /\ meshes[2].registered
    /\ meshes[1].V = 3 /\ meshes[2].V = 4
    /\ meshes[1].nElems > 0 /\ meshes[2].nElems > 0
    /\ meshes[2].memSpace = meshes[1].memSpace
    /\ meshes[2].respSet /\ meshes[2].lmDataOk )
  => ( /\ ret.val = FALSE
       /\ cs.errs.cs_method_error = "DIFFERENT_FACE_TYPES"
       /\ cs.m_interface_pairs = << >> )

\* C2: once init() has returned false with a configuration error recorded, a
\* performBinning() does not invoke the pair finder and an apply() leaves no
\* contact plane and hands back the timestep it was given.
C2_InertAfterFailedInit ==
  [][ ( ~cs.m_isValid /\ SettingsErrorTagged(cs) )
      => ( /\ ret'.op = "performBinning" => ~ret'.finder
           /\ ret'.op = "apply" => ( NoPlanes(cs') /\ ret'.dtOut = ret'.dtIn ) )
    ]_vars

\* C3: under BINNING_CARTESIAN_PRODUCT a performBinning() that invokes the pair
\* finder leaves hasFixedBinning() true; once hasFixedBinning() is true it
\* stays true, and a performBinning() does not invoke the finder and leaves
\* the candidate pair list unchanged.
C3_CartesianBinsOnce ==
  [][ cs.m_binningMethod = "BINNING_CARTESIAN_PRODUCT"
      => ( /\ ( ret'.op = "performBinning" /\ ret'.finder )
                => hasFixedBinning(cs')
           /\ hasFixedBinning(cs) =>
                ( /\ hasFixedBinning(cs')
                  /\ ret'.op = "performBinning" =>
                       ( /\ ~ret'.finder
                         /\ cs'.m_interface_pairs = cs.m_interface_pairs ) ) )
    ]_vars

\* a later performBinning() under the Cartesian product, on non-null meshes
\* with pairs, that did not invoke the finder
C3_Witness ==
  /\ ret.op = "performBinning" /\ ~ret.finder
  /\ cs.m_binningMethod = "BINNING_CARTESIAN_PRODUCT"
  /\ cs.m_contactCase = "NO_CASE"
  /\ ~cs.m_nullMeshes /\ hasFixedBinning(cs)
  /\ Len(cs.m_interface_pairs) > 0

\* C4: with case NO_SLIDING, under any binning policy, once a performBinning()
\* has invoked the pair finder (the scheme is binned) every performBinning()
\* does not invoke the finder and leaves the pair list unchanged.
C4_NoSlidingPinsBinning ==
  [][ ( cs.m_contactCase = "NO_SLIDING" /\ cs.m_isBinned /\
        ret'.op = "performBinning" )
      => ( /\ ~ret'.finder
           /\ cs'.m_interface_pairs = cs.m_interface_pairs ) ]_vars

\* a later performBinning() under BINNING_GRID and NO_SLIDING that did not
\* invoke the finder
C4_Witness ==
  /\ ret.op = "performBinning" /\ ~ret.finder
  /\ cs.m_binningMethod = "BINNING_GRID"
  /\ cs.m_contactCase = "NO_SLIDING"
  /\ ~cs.m_nullMeshes /\ cs.m_isBinned
  /\ Len(cs.m_interface_pairs) > 0

\* C5: after apply(), every pair whose check reported a face-geometry error is
\* no contact candidate, every other pair carries the verdict of its own
\* check, and apply() returned 0 if ApplyInterfacePhysics returned 0.
C5_GeometryErrorNotFatal ==
  ret.op = "apply" =>
    /\ Len(cs.m_interface_pairs) = Len(ret.outcomes)
    /\ \A i \in DOMAIN ret.outcomes :
         IF ret.outcomes[i].err # "NO_FACE_GEOM_ERROR"
         THEN ~cs.m_interface_pairs[i].m_is_contact_candidate
         ELSE cs.m_interface_pairs[i].m_is_contact_candidate =
                ret.outcomes[i].interact
    /\ ret.physErr = 0 => ret.val = 0

\* an apply() that returned 0 with a face-geometry error on the first pair
\* and a later pair in contact
C5_Witness ==
  /\ ret.op = "apply" /\ ret.val = 0
  /\ Len(ret.outcomes) >= 2
  /\ ret.outcomes[1].err = "INVALID_FACE_INPUT"
  /\ ~cs.m_interface_pairs[1].m_is_contact_candidate
  /\ ret.outcomes[2].interact
  /\ cs.m_interface_pairs[2].m_is_contact_candidate

\* C6: an apply() raises numBadOrientation, numBadFaceGeometry and
\* numBadOverlaps by the numbers of pairs of the cycle whose check returned
\* FACE_ORIENTATION, INVALID_FACE_INPUT and DEGENERATE_OVERLAP.
C6_ErrorsTallied ==
  [][ ret'.op = "apply" =>
        /\ cs'.m_pairReportingData.numBadOrientation =
             cs.m_pairReportingData.numBadOrientation +
             ret'.tally["FACE_ORIENTATION"]
        /\ cs'.m_pairReportingData.numBadFaceGeometry =
             cs.m_pairReportingData.numBadFaceGeometry +
             ret'.tally["INVALID_FACE_INPUT"]
        /\ cs'.m_pairReportingData.numBadOverlaps =
             cs.m_pairReportingData.numBadOverlaps +
             ret'.tally["DEGENERATE_OVERLAP"] ]_vars

\* C7: after apply() the contact-plane array of the other dimension is empty,
\* getNumActivePairs() is the size of the array of the dimension and is at
\* most the number of candidate pairs of the cycle.
C7_OnePlaneArray ==
  ret.op = "apply" =>
    /\ IF spatialDimension(cs) = 2
       THEN /\ cs.m_contact_plane3d = 0
            /\ getNumActivePairs(cs) = cs.m_contact_plane2d
       ELSE /\ cs.m_contact_plane2d = 0
            /\ getNumActivePairs(cs) = cs.m_contact_plane3d
    /\ getNumActivePairs(cs) <= ret.numPairs

\* an apply() in 2D with some but not all pairs active
C7_Witness ==
  /\ ret.op = "apply"
  /\ spatialDimension(cs) = 2
  /\ cs.m_contact_plane2d > 0
  /\ cs.m_contact_plane2d < ret.numPairs

\* the combinations of method, model and enforcement options of the allow-list
OnAllowList(a) ==
  \/ /\ a.method = "COMMON_PLANE"
     /\ a.model \in {"FRICTIONLESS", "TIED", "NULL_MODEL"}
     /\ a.enforcement = "PENALTY" /\ a.penalty_set
  \/ /\ a.method \in {"SINGLE_MORTAR", "ALIGNED_MORTAR"}
     /\ a.model \in {"FRICTIONLESS", "NULL_MODEL"}
     /\ a.enforcement = "LAGRANGE_MULTIPLIER" /\ a.lm_set
     /\ a.sparse_mode \in {"MFEM_LINKED_LIST", "MFEM_ELEMENT_DENSE"}
     /\ a.eval_mode # "MORTAR_WEIGHTS_EVAL"
  \/ /\ a.method = "MORTAR_WEIGHTS"
     /\ a.model \in {"FRICTIONLESS", "NULL_MODEL"}
     /\ a.sparse_mode = "MFEM_LINKED_LIST"

\* both meshes are registered and (still) marked valid
MeshChecksPassed ==
  \A id \in {cs.m_mesh_id1, cs.m_mesh_id2} :
    meshes[id].registered /\ meshes[id].valid

\* two distinct, non-null 3D meshes of equal face type, with nodal response
\* and valid enforcement data
GoodMeshes ==
  /\ cs.m_mesh_id1 # cs.m_mesh_id2
  /\ MeshChecksPassed
  /\ meshes[cs.m_mesh_id1].V = meshes[cs.m_mesh_id2].V
  /\ \A id \in {cs.m_mesh_id1, cs.m_mesh_id2} :
       /\ meshes[id].nElems > 0 /\ MeshDim(meshes[id].V) = 3
       /\ meshes[id].respSet
       /\ meshes[id].lmDataOk /\ meshes[id].penDataOk

\* C8: on good meshes, with a valid mode and an in-range case,
\* isValidCouplingScheme() accepts the requested method, model and enforcement
\* options exactly when they are on the allow-list (so never COULOMB).
C8_AllowList ==
  ( /\ ret.op = "isValidCouplingScheme"
    /\ GoodMeshes
    /\ req.mode \in {"SURFACE_TO_SURFACE", "SURFACE_TO_SURFACE_CONFORMING"}
    /\ req.case \in ContactCases )
  => ( ret.val <=> OnAllowList(req) )

\* MORTAR_WEIGHTS requested with PENALTY was accepted, the enforcement
\* overridden to NULL_ENFORCEMENT
C8_Witness ==
  /\ ret.op = "isValidCouplingScheme" /\ ret.val
  /\ GoodMeshes
  /\ req.method = "MORTAR_WEIGHTS" /\ req.enforcement = "PENALTY"
  /\ req.model = "NULL_MODEL"
  /\ cs.m_enforcementMethod = "NULL_ENFORCEMENT"

\* C9: whenever isValidCouplingScheme() or init() has returned false, one of
\* the six error fields holds an error.
C9_RejectionTagged ==
  ( ret.op \in {"isValidCouplingScheme", "init"} /\ ~ret.val )
  => ErrorTagged(cs)

\* C9 (amended): whenever isValidCouplingScheme() has returned false with
\* both meshes registered and still marked valid, one of the six error fields
\* holds an error.
C9_SettingsRejectionTagged ==
  ( ret.op = "isValidCouplingScheme" /\ ~ret.val /\ MeshChecksPassed )
  => ErrorTagged(cs)

\* a rejection for a missing nodal response, tagged in the method error only
C9_Witness ==
  /\ ret.op = "isValidCouplingScheme" /\ ~ret.val
  /\ MeshChecksPassed
  /\ ~meshes[2].respSet
  /\ cs.errs = [NoErrors("NO_ENFORCEMENT_DATA_ERROR") EXCEPT
                  !.cs_method_error = "NULL_NODAL_RESPONSE"]

\* C10: with mode SURFACE_TO_SURFACE_CONFORMING, after isValidCase() on an
\* in-range case the case is NO_SLIDING, isValidCase() returned true with
\* NO_CASE_ERROR, and another isValidCase() leaves the case unchanged.
C10_ConformingForcesNoSliding ==
  ( /\ ret.op = "isValidCase"
    /\ cs.m_contactMode = "SURFACE_TO_SURFACE_CONFORMING"
    /\ ret.caseBefore \in ContactCases )
  => ( /\ ret.val
       /\ cs.m_contactCase = "NO_SLIDING"
       /\ cs.errs.cs_case_error = "NO_CASE_ERROR"
       /\ isValidCase(cs, meshes).cs.m_contactCase = cs.m_contactCase )

\* isValidCase() has overridden a requested TIED_NORMAL
C10_Witness ==
  /\ ret.op = "isValidCase"
  /\ cs.m_contactMode = "SURFACE_TO_SURFACE_CONFORMING"
  /\ ret.caseBefore = "TIED_NORMAL"
  /\ cs.m_contactCase = "NO_SLIDING"
  /\ cs.cs_case_info = "SPECIFYING_NO_SLIDING_WITH_REGISTERED_MODE"

\* element thickness is registered on both meshes of the scheme
ThicknessRegistered ==
  \A id \in {cs.m_mesh_id1, cs.m_mesh_id2} : meshes[id].thickSet

\* the case AUTO survives the overrides of isValidCase(): mode not conforming,
\* method COMMON_PLANE, one mesh on both sides
AutoCaseKept(case) ==
  /\ case = "AUTO"
  /\ cs.m_contactMode = "SURFACE_TO_SURFACE"
  /\ cs.m_contactMethod = "COMMON_PLANE"
  /\ cs.m_mesh_id1 = cs.m_mesh_id2

\* C11: when the case is still AUTO after the overrides of isValidCase(),
\* isValidCase() (and with it isValidCouplingScheme()) fails with case error
\* INVALID_CASE_DATA unless element thickness is registered on both meshes;
\* with thickness registered isValidCase() passes with NO_CASE_ERROR, the case
\* AUTO and the AUTO interpenetration check enabled.
C11_AutoNeedsThickness ==
  /\ ( ret.op = "isValidCase" /\ AutoCaseKept(ret.caseBefore) )
     => ( /\ cs.m_contactCase = "AUTO" /\ cs.auto_interpen_check
          /\ ret.val = ThicknessRegistered
          /\ cs.errs.cs_case_error =
               IF ThicknessRegistered THEN "NO_CASE_ERROR"
                                      ELSE "INVALID_CASE_DATA" )
  /\ ( ret.op = "isValidCouplingScheme" /\ AutoCaseKept(req.case) /\
       MeshChecksPassed )
     => ( /\ cs.m_contactCase = "AUTO" /\ cs.auto_interpen_check
          /\ ~ThicknessRegistered => ~ret.val
          /\ cs.errs.cs_case_error =
               IF ThicknessRegistered THEN "NO_CASE_ERROR"
                                      ELSE "INVALID_CASE_DATA" )

\* isValidCouplingScheme() rejected an AUTO scheme on a mesh without thickness
C11_Witness ==
  /\ ret.op = "isValidCouplingScheme" /\ ~ret.val
  /\ AutoCaseKept(req.case) /\ MeshChecksPassed
  /\ ~ThicknessRegistered
  /\ cs.errs.cs_case_error = "INVALID_CASE_DATA"
  /\ cs.errs.cs_method_error = "NO_METHOD_ERROR"

\* the methods that write nodal forces
ForceMethods == {"COMMON_PLANE", "SINGLE_MORTAR", "ALIGNED_MORTAR"}

\* isValidCouplingScheme() got as far as the nodal response check of
\* isValidMethod(): the mesh, mode and case checks passed, the meshes are not
\* null, and the face types, mesh ids and dimension suit the method
ReachedResponseCheck ==
  /\ ret.op = "isValidCouplingScheme"
  /\ MeshChecksPassed /\ ~cs.m_nullMeshes
  /\ cs.errs.cs_mode_error = "NO_MODE_ERROR"
  /\ cs.errs.cs_case_error = "NO_CASE_ERROR"
  /\ cs.m_contactMethod \in ContactMethods
  /\ meshes[cs.m_mesh_id1].V = meshes[cs.m_mesh_id2].V
  /\ cs.m_contactMethod # "COMMON_PLANE"
       => ( cs.m_mesh_id1 # cs.m_mesh_id2 /\
            MeshDim(meshes[cs.m_mesh_id1].V) = 3 )

\* a mesh of the scheme has elements and no nodal response
ResponseMissing ==
  \E id \in {cs.m_mesh_id1, cs.m_mesh_id2} :
    meshes[id].nElems > 0 /\ ~meshes[id].respSet

\* C12: on non-null meshes that pass the face type, mesh id and dimension
\* checks, COMMON_PLANE, SINGLE_MORTAR and ALIGNED_MORTAR are rejected with
\* NULL_NODAL_RESPONSE when a mesh with elements has no nodal response, and
\* MORTAR_WEIGHTS passes the method check with or without one.
C12_ForceMethodsNeedResponse ==
  ReachedResponseCheck =>
    /\ ( cs.m_contactMethod \in ForceMethods /\ ResponseMissing )
         => ( ~ret.val /\ cs.errs.cs_method_error = "NULL_NODAL_RESPONSE" )
    /\ ( cs.m_contactMethod \in ForceMethods /\ ~ResponseMissing )
         => cs.errs.cs_method_error = "NO_METHOD_ERROR"
    /\ cs.m_contactMethod = "MORTAR_WEIGHTS"
         => cs.errs.cs_method_error = "NO_METHOD_ERROR"

\* a mortar scheme was rejected for the missing nodal response of mesh 2
C12_Witness ==
  /\ ReachedResponseCheck /\ ResponseMissing
  /\ cs.m_contactMethod = "SINGLE_MORTAR"
  /\ ~ret.val /\ cs.errs.cs_method_error = "NULL_NODAL_RESPONSE"

\* a MORTAR_WEIGHTS scheme was accepted on a mesh without nodal response
C12_WeightsAccepted ==
  /\ ReachedResponseCheck /\ ResponseMissing
  /\ cs.m_contactMethod = "MORTAR_WEIGHTS"
  /\ ret.val

\* a mesh of the scheme is marked invalid
UsesInvalidMesh ==
  \E id \in {cs.m_mesh_id1, cs.m_mesh_id2} : ~meshes[id].valid

\* C13: a mesh that isValidCouplingScheme() marked invalid stays invalid until
\* the host registers it again, and every init() of a scheme that uses a mesh
\* marked invalid returns false.
C13_InvalidMeshBlocksInit ==
  [][ /\ ( UsesInvalidMesh /\ ret'.op = "init" ) => ~ret'.val
      /\ \A id \in MeshIds :
           ( ~meshes[id].valid /\ meshes'[id].valid )
             => ( ret'.op = "registerMesh" /\ ret'.id = id ) ]_vars

\* init() of a scheme on mesh 1 alone failed, untagged, on the mark that an
\* earlier scheme pairing mesh 1 with a mesh of another kind left on it
C13_Witness ==
  /\ ret.op = "init" /\ ~ret.val
  /\ cs.m_mesh_id1 = 1 /\ cs.m_mesh_id2 = 1
  /\ ~meshes[1].valid
  /\ ~ErrorTagged(cs)

\* the memory space of the meshes of the scheme
MemorySpaceOfScheme == meshes[cs.m_mesh_id1].memSpace

\* C14: after a successful init() the execution mode follows the memory space
\* of the meshes whatever mode was requested, the default Dynamic included:
\* CUDA or HIP on device memory, OpenMP (if built) or sequential on host memory.
C14_ExecFollowsMemory ==
  ( ret.op = "init" /\ ret.val ) =>
    /\ MemorySpaceOfScheme = "Device" => cs.m_exec_mode \in {"Cuda", "Hip"}
    /\ MemorySpaceOfScheme = "Host" =>
         cs.m_exec_mode \in
           {"Sequential"} \cup
           (IF "OPENMP" \in req.build THEN {"OpenMP"} ELSE {})

\* the part of C14 on host memory, which the code does satisfy
C14_HostPart ==
  ( ret.op = "init" /\ ret.val /\ MemorySpaceOfScheme = "Host" ) =>
    cs.m_exec_mode \in
      {"Sequential"} \cup (IF "OPENMP" \in req.build THEN {"OpenMP"} ELSE {})

\* init() succeeded on device memory, in a CUDA build, with the default
\* requested mode, and selected sequential execution on the host
C14_DeviceSequential ==
  /\ ret.op = "init" /\ ret.val
  /\ MemorySpaceOfScheme = "Device"
  /\ "CUDA" \in req.build
  /\ req.given_exec_mode = "Dynamic"
  /\ cs.m_exec_mode = "Sequential"

\* the positive votes, each capped
PositiveVotes(votes) == {Min2(v, VoteCap) : v \in {w \in votes : w > 0}}

\* C15: for a timestep of at least 1.e-8 (here 1) and every set of active
\* planes, computeCommonPlaneTimeStep() hands back a timestep that is
\* positive, not above the one it was given, and equal to the minimum of that
\* one and the positive votes, each capped at 1.e6 (here VoteCap); votes that
\* are zero or negative change nothing.
C15_VoteOnlyReduces ==
  /\ ( ret.op = "computeTimeStep" /\ ret.dtIn >= 1 )
       => ( /\ 0 < ret.dtOut /\ ret.dtOut <= ret.dtIn
            /\ ret.dtOut = SetMin({ret.dtIn} \cup PositiveVotes(ret.votes))
            /\ (\A v \in ret.votes : v <= 0) => ret.dtOut = ret.dtIn )
  /\ ret.op = "kernel"
       => \A k \in 1..2 :
            /\ 0 < ret.dt_temp[k] /\ ret.dt_temp[k] <= ret.dtIn
            /\ ret.dt_temp[k] >= SetMin({ret.dtIn} \cup
                                        PositiveVotes(ret.votes))

\* the kernel ran on planes with a negative, a zero and a positive vote and
\* the timestep was cut to the positive one
C15_Witness ==
  /\ ret.op = "computeTimeStep" /\ ret.voted
  /\ {-1, 0, 1} \subseteq ret.votes
  /\ ret.dtIn = MaxDt /\ ret.dtOut = 1

\* only zero and negative votes were cast and the timestep came back as given
C15_NonPositiveIgnored ==
  /\ ret.op = "computeTimeStep" /\ ret.voted
  /\ ret.votes = {-1, 0}
  /\ ret.dtOut = ret.dtIn

\* C16: for COMMON_PLANE, getGapTol() and the view's getCommonPlaneGapTol()
\* return the same tolerance, gap_tied_tol * max(r1, r2) for the TIED model
\* and -gap_tol_ratio * max(r1, r2) for the others; for the three mortar
\* methods getGapTol() returns 0.
C16_GapTolAgrees ==
  ret.op = "getGapTol" =>
    /\ cs.m_contactMethod = "COMMON_PLANE" =>
         /\ ret.tol = ret.viewTol
         /\ ret.tol = IF cs.m_contactModel = "TIED"
                      THEN req.parameters.gap_tied_tol *
                           (IF ret.r1 >= ret.r2 THEN ret.r1 ELSE ret.r2)
                      ELSE 0 - req.parameters.gap_tol_ratio *
                           (IF ret.r1 >= ret.r2 THEN ret.r1 ELSE ret.r2)
    /\ cs.m_contactMethod \in {"SINGLE_MORTAR", "ALIGNED_MORTAR",
                               "MORTAR_WEIGHTS"} => ret.tol = 0

\* a TIED COMMON_PLANE scheme gave the tolerance of faces of unequal radii
C16_Witness ==
  /\ ret.op = "getGapTol"
  /\ cs.m_contactMethod = "COMMON_PLANE" /\ cs.m_contactModel = "TIED"
  /\ ret.r1 < ret.r2
  /\ ret.tol = req.parameters.gap_tied_tol * ret.r2
  /\ ret.tol = ret.viewTol

\* a mortar scheme was asked for its tolerance
C16_MortarZero ==
  /\ ret.op = "getGapTol"
  /\ cs.m_contactMethod = "SINGLE_MORTAR"
  /\ ret.tol = 0 /\ ret.viewTol # 0

\* C20: PolyAreaCentroid() fails, returning false, for every face with fewer
\* than three vertices (numVert 0, 1 or 2).
C20_ShortFaceFails ==
  (ret.op = "PolyAreaCentroid" /\ Len(req.A) < 3) => ~ret.res.ok

\* only numVert = 0 is turned down ...
C20_EmptyFaceFails ==
  (ret.op = "PolyAreaCentroid" /\ Len(req.A) = 0) => ~ret.res.ok

\* ... and a face of one or two vertices is answered true with the centroid
\* 0 / 0
C20_ShortFaceNaN ==
  /\ ret.op = "PolyAreaCentroid" /\ Len(req.A) \in {1, 2}
  /\ ret.res.ok /\ ret.res.den = 0

\* a face with area gets its centroid: the square of side 4 at the origin has
\* the centroid (2, 2)
C20_SquareCentroid ==
  /\ ret.op = "PolyAreaCentroid" /\ req.A = Rect(<<0, 0>>, 4, 4)
  /\ ret.res.ok /\ ret.res.den > 0
  /\ ret.res.num = <<2 * ret.res.den, 2 * ret.res.den>>

\* every edge of P, the closing one included, is at least tol long
EdgesAtLeast(P, tol) ==
  \A i \in 1..Len(P) :
    MagSq(VecSub(P[NextVertex(i, Len(P))], P[i])) >= tol * tol

\* the call returned an overlap polygon with positive area
PositiveOverlap ==
  /\ ret.op = "Intersection2DPolygon"
  /\ ret.res.err = "NO_FACE_GEOM_ERROR"
  /\ ret.res.areaSet /\ ret.res.area.num > 0

\* C17: every overlap polygon Intersection2DPolygon() returns with positive
\* area has all its edges, the closing edge included, of length >= lenTol, and
\* the polygon CheckPolySegs() writes has no edge shorter than its tolerance.
C17_EdgesAtLeastTol ==
  /\ PositiveOverlap => EdgesAtLeast(ret.res.poly, req.lenTol)
  /\ (ret.op = "CheckPolySegs" /\ ret.res.numNewPoints >= 3) =>
       EdgesAtLeast(ret.res.xnew, req.lenTol)

\* a face wholly inside the other is handed back as it is, short edges and
\* all: the square of side 2 inside the square of side 8, lenTol = 3
C17_InteriorFaceShortEdges ==
  /\ PositiveOverlap /\ ~ret.res.undefined
  /\ req.A = Rect(<<1, 1>>, 2, 2) /\ req.B = Rect(<<-2, -2>>, 8, 8)
  /\ req.lenTol = 3
  /\ ret.res.poly = req.A /\ ret.res.identified = -1

\* the collapse itself leaves a short edge between two vertices it keeps
C17_CollapseLeavesShortEdge ==
  /\ ret.op = "CheckPolySegs" /\ ret.res.numNewPoints >= 3
  /\ ret.res.numNewPoints < Len(req.A)
  /\ ~EdgesAtLeast(ret.res.xnew, req.lenTol)

\* with no tolerance to fall short of, nothing is collapsed
C17_NoTolNoCollapse ==
  (ret.op = "CheckPolySegs" /\ req.lenTol = 0) => ret.res.xnew = req.A

\* C19: given a degenerate input face (repeated vertices, a zero-length edge
\* or all vertices on a line) Intersection2DPolygon() returns an error other
\* than NO_FACE_GEOM_ERROR and performs no undefined operation on the way: no
\* division by zero in Point2DInTri(), no unwritten index in PolyReorder().
C19_DegenerateTagged ==
  (ret.op = "Intersection2DPolygon"
     /\ (DegenerateFace(req.A) \/ DegenerateFace(req.B))) =>
    /\ ret.res.err # "NO_FACE_GEOM_ERROR"
    /\ ~ret.res.divByZero
    /\ ~ret.res.undefined

\* a degenerate face passes the orientation check and the call ends without
\* an error
C19_DegenerateAccepted ==
  /\ ret.op = "Intersection2DPolygon" /\ req.orientCheck
  /\ DegenerateFace(req.A) /\ ~DegenerateFace(req.B)
  /\ ~ret.res.undefined
  /\ ret.res.err = "NO_FACE_GEOM_ERROR"

\* Point2DInTri() divides by zero on a triangle of a degenerate face
C19_DividesByZero ==
  /\ ret.op = "Intersection2DPolygon" /\ req.orientCheck
  /\ DegenerateFace(req.A) /\ ~DegenerateFace(req.B)
  /\ ret.res.divByZero

\* PolyReorder() reads jID unwritten on the points of a degenerate face
C19_UnsetIndex ==
  /\ ret.op = "Intersection2DPolygon" /\ req.orientCheck
  /\ ~DegenerateFace(req.A) /\ DegenerateFace(req.B)
  /\ ret.res.undefined

\* what the routine does tag: a face of fewer than three vertices, and, with
\* the orientation check on, a face in clockwise order
C19_ShortOrClockwiseTagged ==
  (ret.op = "Intersection2DPolygon" /\ ~ret.res.undefined) =>
    /\ (Len(req.A) < 3 \/ Len(req.B) < 3) => ret.res.err = "INVALID_FACE_INPUT"
    /\ (req.orientCheck /\ req.A = Reversed(Rect(<<0, 0>>, 4, 4))) =>
         ret.res.err = "FACE_ORIENTATION"

\* the overlap vertices left to the call: those the collapse kept if it ran,
\* else those collected
RemainingVertices(res) ==
  IF res.numFinalVert >= 0 THEN res.numFinalVert ELSE res.identified

\* the call collected the overlap vertices, every operation on the way being
\* defined, and fewer than three are left after the collapse
CollapsedOverlap ==
  /\ ret.op = "Intersection2DPolygon"
  /\ ~ret.res.undefined
  /\ ret.res.identified >= 0
  /\ RemainingVertices(ret.res) < 3

\* C18: when the overlap vertices collected by Intersection2DPolygon()
\* (segment intersections plus interior vertices) number fewer than three
\* after the short-edge collapse, the routine returns NO_FACE_GEOM_ERROR with
\* area 0.  (Calls that read the unwritten index are the matter of C19.)
C18_CollapsedIsZeroArea ==
  CollapsedOverlap =>
    /\ ret.res.err = "NO_FACE_GEOM_ERROR"
    /\ ret.res.areaSet /\ ret.res.area = ZeroArea

\* three or more vertices collected between two faces with area, and the
\* collapse leaves fewer than three
C18_Witness ==
  /\ CollapsedOverlap
  /\ ~DegenerateFace(req.A) /\ ~DegenerateFace(req.B)
  /\ ret.res.identified >= 3
  /\ ret.res.numFinalVert \in 0..2
  /\ ret.res.err = "NO_FACE_GEOM_ERROR" /\ ret.res.area = ZeroArea

\* one or two vertices collected: the collapse is not run
C18_FewCollected ==
  /\ CollapsedOverlap
  /\ ~DegenerateFace(req.A) /\ ~DegenerateFace(req.B)
  /\ ret.res.identified \in 1..2 /\ ret.res.numFinalVert = -1

\* faces apart: nothing collected
C18_NoneCollected ==
  /\ CollapsedOverlap
  /\ ~DegenerateFace(req.A) /\ ~DegenerateFace(req.B)
  /\ ret.res.identified = 0

\* Q is P started at another index
IsRotation(Q, P) ==
  Len(Q) = Len(P) /\ \E k \in 0..(Len(P) - 1) : Q = Rotated(P, k)

\* Q holds the entries of P, each as often
IsPermutation(Q, P) ==
  /\ Len(Q) = Len(P)
  /\ \A p \in {P[i] : i \in 1..Len(P)} \cup {Q[i] : i \in 1..Len(Q)} :
       Cardinality({i \in 1..Len(P) : P[i] = p})
         = Cardinality({i \in 1..Len(Q) : Q[i] = p})

\* C21: PolyReorder() leaves a convex polygon of 3 to 8 distinct vertices
\* that is already counter-clockwise unchanged up to the starting index; on
\* any points in convex position a second call changes nothing the first one
\* left, and the result is a permutation of the input.
C21_ReorderIdempotent ==
  ret.op = "PolyReorder" =>
    /\ ret.res.ok /\ ~ret.res.unset
    /\ IsPermutation(ret.res.x, ret.before)
    /\ ConvexCCW(ret.before) => IsRotation(ret.res.x, ret.before)
    /\ ret.calls = 2 => ret.res.x = ret.before

\* eight corners handed in out of order come back counter-clockwise, and the
\* second call leaves them so
C21_Witness ==
  /\ ret.op = "PolyReorder" /\ ret.calls = 2
  /\ Len(req.x) = 8 /\ ~ConvexCCW(req.x)
  /\ ConvexCCW(ret.before) /\ ret.before # req.x
  /\ ret.res.x = ret.before

\* the first call always ends counter-clockwise, on the vertex it was given
\* first
C21_SortsCCW ==
  (ret.op = "PolyReorder" /\ ret.calls = 1) =>
    ConvexCCW(ret.res.x) /\ ret.res.x[1] = req.x[1]

\* a convex face of 3 or 4 vertices, in either sense of rotation
ConvexFace(P) ==
  Len(P) \in {3, 4} /\ (ConvexCCW(P) \/ ConvexCCW(Reversed(P)))

SameArea(a, b) == a.num * b.den = b.num * a.den
VertexSet(P) == {P[i] : i \in 1..Len(P)}

\* C22: for two convex faces of 3 or 4 vertices each, Intersection2DPolygon(A,
\* B) and Intersection2DPolygon(B, A) return the same error code, the same
\* overlap area and the same set of overlap vertices.
C22_Symmetric ==
  (ret.op = "Intersection2DPolygon twice"
     /\ ConvexFace(req.A) /\ ConvexFace(req.B)) =>
    /\ ret.res.err = ret.swapped.err
    /\ ret.res.areaSet = ret.swapped.areaSet
    /\ SameArea(ret.res.area, ret.swapped.area)
    /\ VertexSet(ret.res.poly) = VertexSet(ret.swapped.poly)

\* the square of side 4 against the square of side 8 set off by (2, 2), with
\* posTol = 1/2: called one way the overlap is the square of side 2, called
\* the other way the answers differ
C22_OrderMatters ==
  /\ ret.op = "Intersection2DPolygon twice" /\ ~ret.res.undefined
  /\ ~ret.swapped.undefined
  /\ req.A = Rect(<<0, 0>>, 4, 4) /\ req.B = Rect(<<2, 2>>, 8, 8)
  /\ req.lenTol = 0
  /\ VertexSet(ret.res.poly) = VertexSet(Rect(<<2, 2>>, 2, 2))
  /\ VertexSet(ret.swapped.poly) # VertexSet(ret.res.poly)

\* with a position tolerance below every distance between distinct points of
\* the faces the two calls agree
C22_SymmetricSmallTol ==
  req.posTol.den = 1000 => C22_Symmetric

\* an axis-aligned rectangle, counter-clockwise from its lower left corner
IsRect(P) ==
  /\ Len(P) = 4
  /\ P[2][1] > P[1][1] /\ P[3][2] > P[1][2]
  /\ P = Rect(P[1], P[2][1] - P[1][1], P[3][2] - P[1][2])

StrictlyInside(p, R) ==
  /\ R[1][1] < p[1] /\ p[1] < R[3][1]
  /\ R[1][2] < p[2] /\ p[2] < R[3][2]

\* exactly one vertex of each rectangle lies inside the other
OneCornerEach(A, B) ==
  /\ IsRect(A) /\ IsRect(B)
  /\ Cardinality({i \in 1..4 : StrictlyInside(A[i], B)}) = 1
  /\ Cardinality({j \in 1..4 : StrictlyInside(B[j], A)}) = 1

\* the rectangle two overlapping rectangles share
OverlapRect(A, B) ==
  Rect(<<Max2(A[1][1], B[1][1]), Max2(A[1][2], B[1][2])>>,
       Min2(A[3][1], B[3][1]) - Max2(A[1][1], B[1][1]),
       Min2(A[3][2], B[3][2]) - Max2(A[1][2], B[1][2]))

RectArea(R) == (R[3][1] - R[1][1]) * (R[3][2] - R[1][2])

\* the call returned exactly the rectangle the two share, with its area
ReturnsOverlapRect ==
  /\ ret.res.err = "NO_FACE_GEOM_ERROR"
  /\ ret.res.numPolyVert = 4 /\ Len(ret.res.poly) = 4
  /\ VertexSet(ret.res.poly) = VertexSet(OverlapRect(req.A, req.B))
  /\ ret.res.areaSet
  /\ ret.res.area.num = RectArea(OverlapRect(req.A, req.B)) * ret.res.area.den

\* C23: for two axis-aligned rectangles overlapping so that exactly one vertex
\* of each lies inside the other, Intersection2DPolygon() returns
\* NO_FACE_GEOM_ERROR with exactly the 4 corners of the intersection rectangle
\* and its width times its height as the area.
C23_RectOverlap ==
  (ret.op = "Intersection2DPolygon" /\ OneCornerEach(req.A, req.B)) =>
    ReturnsOverlapRect

\* the tolerances are small against the overlap: lenTol is not above either
\* side of the shared rectangle, and every corner of it is either a vertex of
\* A or B or farther than posTol times the longest edge from all of them
LongestEdgeSq(P) ==
  SetMax({MagSq(VecSub(P[NextVertex(i, Len(P))], P[i])) : i \in 1..Len(P)})

SmallTolerances(A, B, R, posTol, lenTol) ==
  /\ lenTol <= R[2][1] - R[1][1] /\ lenTol <= R[3][2] - R[1][2]
  /\ \A c \in VertexSet(R) \ (VertexSet(A) \cup VertexSet(B)) :
       \A v \in VertexSet(A) \cup VertexSet(B) :
         MagSq(VecSub(c, v)) * posTol.den * posTol.den
           >= posTol.num * posTol.num
                * Max2(LongestEdgeSq(A), LongestEdgeSq(B))

\* C23 (amended): the same, for tolerances that are small against the overlap.
C23_RectOverlapSmallTol ==
  (ret.op = "Intersection2DPolygon" /\ OneCornerEach(req.A, req.B)
     /\ SmallTolerances(req.A, req.B, OverlapRect(req.A, req.B),
                        req.posTol, req.lenTol)) =>
    ReturnsOverlapRect

\* the rectangles [1,5] x [0,3] and [2,6] x [2,6] share [2,5] x [2,3]; with
\* lenTol = 1, its shorter side, all four corners come back
C23_Witness ==
  /\ ret.op = "Intersection2DPolygon"
  /\ req.A = Rect(<<1, 0>>, 4, 3) /\ req.B = Rect(<<2, 2>>, 4, 4)
  /\ req.lenTol = 1
  /\ SmallTolerances(req.A, req.B, OverlapRect(req.A, req.B),
                     req.posTol, req.lenTol)
  /\ ReturnsOverlapRect
  /\ ret.res.area.num = 3 * ret.res.area.den

\* the unit squares set off by (0.25, 0.25), in units of a quarter: side 3,
\* area 9
C23_QuarterOffset ==
  /\ ret.op = "Intersection2DPolygon"
  /\ req.A = Rect(<<1, 1>>, 4, 4) /\ req.B = Rect(<<0, 0>>, 4, 4)
  /\ req.lenTol = 0 /\ req.posTol.den = 1000
  /\ ReturnsOverlapRect
  /\ VertexSet(ret.res.poly) = VertexSet(Rect(<<1, 1>>, 3, 3))
  /\ ret.res.area.num = 9 * ret.res.area.den

\* C24: after allocateMortarWts() on an element with V vertices a face numWts
\* is 2 * V * V and every weight is 0, whatever was allocated before; for a,
\* b in [0, V) getSlaveSlaveWt(a, b) reads index V * a + b among the first
\* V * V entries, getMasterSlaveWt(a, b) reads V * V + V * a + b among the
\* last V * V, getSlaveMasterWt(a, b) is getMasterSlaveWt(b, a), and every
\* index read lies in [0, numWts).
C24_MortarWtsLayout ==
  /\ cs.allocated =>
       /\ cs.numWts = 2 * cs.numFaceVert * cs.numFaceVert
       /\ ~cs.isNull /\ Len(cs.mortarWts) = cs.numWts
       /\ \A i \in 1..cs.numWts : cs.mortarWts[i] = 0
       /\ (ret.op \in {"getMasterSlaveWt", "getSlaveMasterWt", "getSlaveSlaveWt"}
            /\ ret.a < cs.numFaceVert /\ ret.b < cs.numFaceVert) =>
            /\ ret.read.inRange /\ ret.read.wt = 0
            /\ ret.read.id >= 0 /\ ret.read.id < cs.numWts
            /\ ret.op = "getSlaveSlaveWt" =>
                 /\ ret.read.id = cs.numFaceVert * ret.a + ret.b
                 /\ ret.read.id < cs.numFaceVert * cs.numFaceVert
            /\ ret.op = "getMasterSlaveWt" =>
                 /\ ret.read.id = cs.numFaceVert * cs.numFaceVert
                                    + cs.numFaceVert * ret.a + ret.b
                 /\ ret.read.id >= cs.numFaceVert * cs.numFaceVert
  /\ ~cs.isNull =>
       \A a, b \in 0..(cs.numFaceVert - 1) :
         getSlaveMasterWt(cs, a, b) = getMasterSlaveWt(cs, b, a)

\* weights of an earlier allocation replaced by zeros, and the last weight
\* read as master-slave weight (V - 1, V - 1)
C24_Witness ==
  /\ cs.allocated /\ req.prior = "counted" /\ cs.numFaceVert = 4
  /\ ret.op = "getMasterSlaveWt"
  /\ ret.a = 3 /\ ret.b = 3
  /\ ret.read.id = cs.numWts - 1 /\ ret.read.wt = 0

\* an index of V or more leaves the array
C24_OutOfRange ==
  /\ cs.allocated /\ ret.op = "getMasterSlaveWt"
  /\ ret.a >= cs.numFaceVert /\ ~ret.read.inRange

\* the pressure indices and the equilibrium indices of the elements assembled
\* so far, and the Add() calls of the last element
PressureIdx == {MortarDim * cs.numTotalNodes + s : s \in cs.slaveIds}
EquilibriumIdx == {MortarDim * n + d : n \in cs.nodeIds, d \in 0..2}
AssemblyDone == "smat" \in DOMAIN cs /\ cs.numElems > 0
LastAdds == assembleJacobian(ret.elem, cs.numTotalNodes)

\* the Add() calls of a Lagrange-multiplier/displacement block have the
\* pressure index on the row, those of a displacement/Lagrange-multiplier
\* block have it on the column
BlocksPlaced(adds, pres, equil) ==
  \A x \in adds :
    IF x.blockI = "LAGRANGE_MULTIPLIER"
    THEN /\ x.row \in pres
         /\ x.col \in equil
         /\ x.blockJ \in {"MASTER", "SLAVE"}
    ELSE /\ x.row \in equil
         /\ x.col \in pres
         /\ x.blockI \in {"MASTER", "SLAVE"}
         /\ x.blockJ = "LAGRANGE_MULTIPLIER"

BlocksTransposed(adds) ==
  {<<x.col, x.row, x.blockJ, x.blockI>> : x \in adds}
    = {<<x.row, x.col, x.blockI, x.blockJ>> : x \in adds}

PositionsPaired(smat, pres, equil) ==
  /\ \A p \in smat :
       \/ p[1] \in pres /\ p[2] \in equil
       \/ p[1] \in equil /\ p[2] \in pres
  /\ {<<p[2], p[1]>> : p \in smat} = smat

JacobianPlaced(smat, adds, pres, equil) ==
  /\ PositionsPaired(smat, pres, equil)
  /\ BlocksPlaced(adds, pres, equil)
  /\ BlocksTransposed(adds)
  /\ (\A n \in cs.nodeIds : n < cs.numTotalNodes) => pres \cap equil = {}

\* C25: assembleJacobian() writes only at positions that pair a pressure
\* index dim*numTotalNodes + (nonmortar node id) with an equilibrium index
\* dim*node_id + d, d in {0,1,2}; the Lagrange-multiplier/displacement block
\* has the pressure index on the row, the displacement/Lagrange-multiplier
\* block has exactly the transposed positions, and with every node id below
\* numTotalNodes no pressure index is an equilibrium index
C25_JacobianPositions ==
  AssemblyDone =>
    JacobianPlaced(cs.smat, LastAdds, PressureIdx, EquilibriumIdx)

\* two elements assembled, every node id below numTotalNodes
C25_Witness ==
  /\ AssemblyDone
  /\ cs.numElems = 2
  /\ \A n \in cs.nodeIds : n < cs.numTotalNodes
  /\ \E x, y \in LastAdds :
       x.blockI = "LAGRANGE_MULTIPLIER" /\ y.blockJ = "LAGRANGE_MULTIPLIER"
  /\ Positions(LastAdds) # cs.smat

\* with a node id at or above numTotalNodes a pressure index can be an
\* equilibrium index
C25_IndicesMeet ==
  /\ AssemblyDone
  /\ PressureIdx \cap EquilibriumIdx # {}

\* every value read from a block lies in its 3 * numFaceVert^2 entries
C25_LocalIdInBlock ==
  AssemblyDone =>
    \A x \in LastAdds :
      x.localId >= 0 /\
      x.localId < MortarDim * ret.elem.numFaceVert * ret.elem.numFaceVert

\* the block spaces named in m_blockJSpaces
ActiveSpaces == Range(cs.data.blockJSpaces)
BlockJReserved == "data" \in DOMAIN cs /\ cs.reserved

\* the lists of the active spaces hold one entry per store, the m-th matrix
\* of block (i, j) couples the m-th element ids of spaces i and j, and the
\* lists of the other spaces are empty
BlockJKept(d, k, active) ==
  /\ \A i \in active :
       /\ Len(d.blockJElemIds[i]) = k
       /\ \A j \in active :
            /\ Len(d.blockJ[<<i, j>>]) = k
            /\ \A m \in 1..k :
                 d.blockJ[<<i, j>>][m] =
                   <<d.blockJElemIds[i][m], d.blockJElemIds[j][m]>>
  /\ \A i \in BlockSpaces \ active : d.blockJElemIds[i] = << >>
  /\ \A p \in BlockSpaces \X BlockSpaces :
       (p[1] \notin active \/ p[2] \notin active) => d.blockJ[p] = << >>

BlockJEmpty(d) ==
  /\ \A i \in BlockSpaces : d.blockJElemIds[i] = << >>
  /\ \A p \in BlockSpaces \X BlockSpaces : d.blockJ[p] = << >>

NoSpaceTwice(spaces) ==
  \A i, j \in DOMAIN spaces : spaces[i] = spaces[j] => i = j

\* C29 as stated: after reserveBlockJ(spaces, n) and k calls of
\* storeElemBlockJ() the lists of the active spaces have length exactly k,
\* the m-th id belongs to the m-th block, the other lists are empty, and a
\* further reserveBlockJ() empties every list
C29_BlockJLists ==
  BlockJReserved =>
    /\ BlockJKept(cs.data, cs.stored, ActiveSpaces)
    /\ ret.op = "reserveBlockJ" => BlockJEmpty(cs.data)

\* C29 for an array of spaces that names no block space twice
C29_BlockJListsDistinct ==
  BlockJReserved =>
    /\ NoSpaceTwice(cs.data.blockJSpaces) =>
         BlockJKept(cs.data, cs.stored, ActiveSpaces)
    /\ ret.op = "reserveBlockJ" => BlockJEmpty(cs.data)

\* two stores into two distinct active spaces
C29_Witness ==
  /\ BlockJReserved
  /\ NoSpaceTwice(cs.data.blockJSpaces)
  /\ getNSpaces(cs.data) = 2
  /\ cs.stored = 2
  /\ ret.op = "storeElemBlockJ"

\* a reserveBlockJ() that discarded stored entries
C29_ReservedAgain ==
  /\ BlockJReserved
  /\ ret.op = "reserveBlockJ"
  /\ ret.discarded > 0

\* a space named twice receives two ids per store
C29_SpaceTwice ==
  /\ BlockJReserved
  /\ cs.stored = 1
  /\ \E i \in ActiveSpaces : Len(cs.data.blockJElemIds[i]) = 2

(***************************************************************************)
(* The pair-check kernel of apply(), one iteration for each candidate pair, *)
(* the iterations interleaved as a parallel forAllExec() may run them       *)
(***************************************************************************)
\* the arrays the kernel works on: the flags of the pairs, pair_err[0],
\* planes_ct[0], and how far each iteration has got
KernelStart(flags) ==
  [flags |-> flags, pair_err |-> 0, planes_ct |-> 0,
   pc |-> [i \in DOMAIN flags |-> "start"]]

\* CheckInterfacePair() on pair i with outcome o: a committed plane takes the
\* next slot of the plane array by an atomic increment of planes_ct
CheckPair(k, i, o) ==
  [k EXCEPT !.planes_ct = IF o.interact THEN @ + 1 ELSE @,
            !.pc[i] = "checked"]

\* (variant) pair_err[0] holds the error status of the pair marked last
MarkPairLastError(k, i, o) ==
  [k EXCEPT !.pair_err = IF o.err # "NO_FACE_GEOM_ERROR" THEN 1 ELSE 0,
            !.flags[i] = FlagAfterCheck(o),
            !.pc[i] = "done"]

\* the rest of the iteration on pair i: pair_err[0] = 1 on an error (every
\* store to it stores 1) and the flag of the pair
MarkPair(k, i, o) ==
  [k EXCEPT !.pair_err = IF o.err # "NO_FACE_GEOM_ERROR" THEN 1 ELSE @,
            !.flags[i] = IF o.err # "NO_FACE_GEOM_ERROR" THEN FALSE
                         ELSE IF ~o.interact THEN FALSE
                         ELSE TRUE,
            !.pc[i] = "done"]

RECURSIVE KernelSequential(_, _, _)
\* the sequential loop over the pairs from index i on
KernelSequential(k, outcomes, i) ==
  IF i > Len(outcomes) THEN k
  ELSE KernelSequential(MarkPair(CheckPair(k, i, outcomes[i]), i, outcomes[i]),
                        outcomes, i + 1)

\* a candidate pair list with the flags an earlier cycle left, and what
\* CheckInterfacePair() finds for each pair on the mesh data of this cycle
KernelArgs ==
  UNION {[outcomes : [1..n -> PairOutcomes], flags : [1..n -> BOOLEAN]] :
           n \in 0..MaxPairs}

InitKernel ==
  /\ meshes = << >>
  /\ req \in KernelArgs
  /\ cs = KernelStart(req.flags)
  /\ ret = [op |-> "forAllExec", steps |-> << >>]
  /\ crashed = FALSE

KernelCheck ==
  /\ \E i \in DOMAIN cs.pc :
       /\ cs.pc[i] = "start"
       /\ cs' = CheckPair(cs, i, req.outcomes[i])
       /\ ret' = [ret EXCEPT !.steps = Append(@, i)]
  /\ UNCHANGED <<meshes, req, crashed>>

KernelMark ==
  /\ \E i \in DOMAIN cs.pc :
       /\ cs.pc[i] = "checked"
       /\ cs' = MarkPair(cs, i, req.outcomes[i])
       /\ ret' = [ret EXCEPT !.steps = Append(@, i)]
  /\ UNCHANGED <<meshes, req, crashed>>

NextKernel == KernelCheck \/ KernelMark
SpecKernel == InitKernel /\ [][NextKernel]_vars

KernelDone ==
  "pc" \in DOMAIN cs /\ \A i \in DOMAIN cs.pc : cs.pc[i] = "done"

\* C26: for a fixed pair list and fixed mesh data the flags of the pairs, the
\* pair-error flag and the number of contact planes after the kernel are the
\* same for every order and interleaving of the iterations, and are those of
\* the sequential loop over the pairs
C26_KernelOrderFree ==
  KernelDone =>
    /\ cs = KernelSequential(KernelStart(req.flags), req.outcomes, 1)
    /\ cs.flags = [i \in DOMAIN req.outcomes |->
                     FlagAfterCheck(req.outcomes[i])]
    /\ cs.planes_ct = PlanesCommitted(req.outcomes)
    /\ cs.pair_err = 1 <=>
         \E i \in DOMAIN req.outcomes :
           req.outcomes[i].err # "NO_FACE_GEOM_ERROR"

\* the iterations of two pairs interleaved, the second pair checked first and
\* marked last, one pair in error and one committing a plane
C26_Witness ==
  /\ KernelDone
  /\ ret.steps = <<2, 1, 1, 2>>
  /\ req.outcomes[1].err # "NO_FACE_GEOM_ERROR"
  /\ req.outcomes[2].interact
  /\ req.flags = <<TRUE, FALSE>>

\* an init() leaves the method data and the two mesh views as they were
InitLeftAlone ==
  /\ cs'.m_methodData = cs.m_methodData
  /\ cs'.m_mesh1 = cs.m_mesh1
  /\ cs'.m_mesh2 = cs.m_mesh2

\* init() returns true exactly when isValidCouplingScheme() does and the
\* method is COMMON_PLANE or the execution mode selected is Sequential
InitVerdict ==
  ret'.val <=>
    ( /\ isValidCouplingScheme(cs, meshes).ok
      /\ \/ cs.m_contactMethod = "COMMON_PLANE"
         \/ SelectExecMode(req.build, meshes[cs.m_mesh_id1].memSpace,
                           req.given_exec_mode) = "Sequential" )

\* C27: init() returns true if and only if isValidCouplingScheme() returns
\* true and the method is COMMON_PLANE or the selected execution mode is
\* Sequential; an init() that returns false allocates no method data and sets
\* no mesh view; m_isValid is the value init() returned
C27_InitVerdictAndFlag ==
  [][ ret'.op = "init" =>
        /\ InitVerdict
        /\ ~ret'.val => InitLeftAlone
        /\ cs'.m_isValid = ret'.val ]_vars

\* the parts of C27 the code satisfies: the verdict, and nothing allocated or
\* set by an init() that returns false
C27_VerdictPart ==
  [][ ret'.op = "init" =>
        /\ InitVerdict
        /\ ~ret'.val => InitLeftAlone
        /\ cs'.m_isValid = isValidCouplingScheme(cs, meshes).ok ]_vars

\* init() returned false on a valid mortar scheme for which a parallel
\* execution mode was selected, and m_isValid is true
C27_ValidFlagAfterFailedInit ==
  /\ ret.op = "init" /\ ~ret.val
  /\ cs.m_isValid
  /\ cs.m_contactMethod = "SINGLE_MORTAR"
  /\ cs.m_exec_mode = "OpenMP"
  /\ cs.m_mesh1.isNull /\ cs.m_methodData = "nullptr"

\* init() returned false on an invalid scheme
C27_InvalidFailedInit ==
  /\ ret.op = "init" /\ ~ret.val /\ ~cs.m_isValid

\* init() returned true on a mortar scheme with sequential execution
C27_MortarSequential ==
  /\ ret.op = "init" /\ ret.val /\ cs.m_isValid
  /\ cs.m_contactMethod = "SINGLE_MORTAR"
  /\ cs.m_exec_mode = "Sequential"
  /\ ~cs.m_mesh1.isNull /\ cs.m_methodData = "MortarData"

(***************************************************************************)
(* computeTimeStep() on every initialised scheme: each method, meshes with  *)
(* and without elements and registered velocities                           *)
(***************************************************************************)
StepArgs ==
  [ mesh_id1 : {1}, mesh_id2 : {2},
    mode : {"SURFACE_TO_SURFACE"}, case : {"NO_CASE"},
    method : ContactMethods, model : {"FRICTIONLESS"},
    enforcement : {"PENALTY", "LAGRANGE_MULTIPLIER"},
    binning : {"BINNING_GRID"},
    penalty_set : {TRUE}, kinematic_constant : BOOLEAN, lm_set : {TRUE},
    sparse_mode : {"MFEM_LINKED_LIST"},
    eval_mode : {"MORTAR_RESIDUAL_JACOBIAN"},
    enable_timestep_vote : BOOLEAN,
    build : {{}}, given_exec_mode : {"Dynamic"} ]

\* the scheme after the constructor and a successful init()
InitStep ==
  /\ req \in StepArgs
  /\ \E n1, n2 \in 0..1, v1, v2 \in BOOLEAN :
       meshes = [id \in MeshIds |->
                   IF id = 1 THEN Mesh(4, n1, TRUE, v1)
                   ELSE Mesh(4, n2, TRUE, v2)]
  /\ init(Construct(req, "NO_ENFORCEMENT_DATA_ERROR"), meshes, req).val
  /\ cs = init(Construct(req, "NO_ENFORCEMENT_DATA_ERROR"), meshes, req).cs
  /\ ret = [op |-> "init", val |-> TRUE]
  /\ crashed = FALSE

\* computeTimeStep(dt); the planes vote only on meshes with elements
ComputeTimeStep ==
  /\ \E dt \in 0..MaxDt,
        votes \in (IF cs.m_mesh1.nElems > 0 /\ cs.m_mesh2.nElems > 0
                   THEN VoteSets ELSE {{}}) :
       ret' = [op |-> "computeTimeStep", dtIn |-> dt,
               dtOut |-> computeTimeStep(cs, dt, votes), votes |-> votes]
  /\ UNCHANGED <<meshes, cs, req, crashed>>

NextStep == ComputeTimeStep
SpecStep == InitStep /\ [][NextStep]_vars

StepTaken == ret.op = "computeTimeStep" /\ "dtIn" \in DOMAIN ret
BothHaveElements == cs.m_mesh1.nElems > 0 /\ cs.m_mesh2.nElems > 0
VelocityMissing == ~cs.m_mesh1.velSet \/ ~cs.m_mesh2.velSet
MortarMethod ==
  cs.m_contactMethod \in {"SINGLE_MORTAR", "ALIGNED_MORTAR", "MORTAR_WEIGHTS"}

\* dt is set to -1.0 exactly when it is at least 1.e-8, both meshes have
\* elements and a velocity is missing; it is left alone when below 1.e-8 and
\* when a velocity is missing on a scheme with a null mesh
StepSentinel ==
  /\ ret.dtOut = -1 <=>
       (ret.dtIn >= 1 /\ BothHaveElements /\ VelocityMissing)
  /\ ret.dtIn < 1 => ret.dtOut = ret.dtIn
  /\ (VelocityMissing /\ ~BothHaveElements) => ret.dtOut = ret.dtIn

\* C28 as stated: dt is unchanged below 1.e-8, when a mesh without velocity
\* is a null mesh, for every mortar method, with the timestep vote disabled
\* and under KINEMATIC_CONSTANT; it is set to -1.0 exactly when dt >= 1.e-8,
\* both meshes have elements and one has no registered velocity
C28_TimeStepCases ==
  StepTaken =>
    /\ StepSentinel
    /\ (MortarMethod \/ ~cs.enable_timestep_vote \/ cs.kinematic_constant)
         => ret.dtOut = ret.dtIn

\* C28 with the order of the tests: the mortar methods, the disabled vote
\* and KINEMATIC_CONSTANT leave dt unchanged once the velocity test has been
\* passed (or a mesh is null, or dt is below 1.e-8)
C28_TimeStepCasesInOrder ==
  StepTaken =>
    /\ StepSentinel
    /\ ( /\ MortarMethod \/ ~cs.enable_timestep_vote \/ cs.kinematic_constant
         /\ ~(ret.dtIn >= 1 /\ BothHaveElements /\ VelocityMissing) )
         => ret.dtOut = ret.dtIn

\* dt below 1.e-8 handed to a scheme on meshes with elements and a missing
\* velocity: left unchanged
C28_Witness ==
  /\ StepTaken
  /\ ret.dtIn = 0 /\ ret.dtOut = 0
  /\ BothHaveElements /\ VelocityMissing

\* a mortar scheme with registered velocities and a vote below dt: unchanged
C28_MortarUnchanged ==
  /\ StepTaken
  /\ MortarMethod /\ ~VelocityMissing /\ BothHaveElements
  /\ ret.dtIn = MaxDt /\ 1 \in ret.votes /\ ret.dtOut = MaxDt

\* a mortar scheme on meshes with elements and a missing velocity: dt = -1.0
C28_MortarSentinel ==
  /\ StepTaken
  /\ MortarMethod /\ VelocityMissing /\ BothHaveElements
  /\ ret.dtIn >= 1 /\ ret.dtOut = -1

\* the vote lowered dt
C28_VoteLowers ==
  /\ StepTaken
  /\ ret.dtOut >= 1 /\ ret.dtOut < ret.dtIn

\* the meshes of the scheme as they are registered now
BothRegisteredWithElements ==
  /\ meshes[cs.m_mesh_id1].nElems > 0
  /\ meshes[cs.m_mesh_id2].nElems > 0

C30_NullMeshesSet ==
  [][ ( ret'.op = "init" /\ ret'.val /\ ~BothRegisteredWithElements )
        => cs'.m_nullMeshes ]_vars

====
